---- MODULE Spec2Model ----
(***************************************************************************)
(* Model of src/app.py: the device trust service, the password gate and    *)
(* the session state of the study tracker.                                 *)
(*                                                                         *)
(* Time is counted in days.  A datetime is a natural number; its ISO-8601  *)
(* text is the fixed-width, zero-padded decimal digit string of that       *)
(* number.  uuid.uuid4() is a draw of a value never drawn before; sha256   *)
(* is a collision-free symbolic digest.                                    *)
(***************************************************************************)
EXTENDS Integers, Sequences, FiniteSets, TLC

(***************************************************************************)
(* Bounds of the model.                                                    *)
(***************************************************************************)
MaxNow == 31
MaxDrift == 1
MaxUuids == 4
MaxAttempts == 1
MaxFailures == 2
MaxTrackedAttempts == 2
IsoWidth == 3
MaxTasks == 3
MaxItems == 2
MaxReps == 2
MaxHistory == 4
MaxLogged == 2
MaxShared == 2
MaxPageTasks == 1

(***************************************************************************)
(* Program constants.                                                      *)
(***************************************************************************)
TrustDays == 30
NameLen == 15
HistoryLimit == 50

None == <<>>

Sessions == {"s1", "s2"}

(***************************************************************************)
(* uuid4, sha256, isoformat / fromisoformat.                               *)
(***************************************************************************)
uuid4(n) == <<"uuid", n>>

sha256(x) == <<"sha256", x>>

generate_session_token_fixed(n) == sha256(uuid4(0))

generate_session_token(n) == sha256(uuid4(n))

Pow10(k) == IF k = 0 THEN 1 ELSE IF k = 1 THEN 10 ELSE IF k = 2 THEN 100
            ELSE IF k = 3 THEN 1000 ELSE IF k = 4 THEN 10000 ELSE 100000

isoformat(t) == [i \in 1..IsoWidth |-> (t \div Pow10(IsoWidth - i)) % 10]

RECURSIVE fromisoformat(_)
fromisoformat(s) ==
    IF Len(s) = 0 THEN 0
    ELSE 10 * fromisoformat(SubSeq(s, 1, Len(s) - 1)) + s[Len(s)]

(***************************************************************************)
(* Client information (get_client_info).  A request either carries a       *)
(* header map or has no readable context at all.                           *)
(***************************************************************************)
IpUnknown == <<"U", "n", "k", "n", "o", "w", "n">>
IpProxy == <<"1", "0", ".", "0", ".", "0", ".", "7", ",", " ",
             "1", "7", "2", ".", "1", "6", ".", "0", ".", "1">>
IpDirect == <<"1", "0", ".", "0", ".", "0", ".", "7">>

Requests ==
    { [ok |-> FALSE, xff |-> None, remote |-> None, agent |-> ""],
      [ok |-> TRUE, xff |-> IpProxy, remote |-> IpDirect, agent |-> "Mozilla"] }

get_client_info(req) ==
    IF ~req.ok
    THEN [ip_address |-> IpUnknown, user_agent |-> "Unknown"]
    ELSE [ip_address |-> IF req.xff # None THEN req.xff
                         ELSE IF req.remote # None THEN req.remote
                         ELSE IpUnknown,
          user_agent |-> IF req.agent # "" THEN req.agent ELSE "Unknown"]

ClientInfos == { get_client_info(req) : req \in Requests }

Take(s, n) == SubSeq(s, 1, IF Len(s) < n THEN Len(s) ELSE n)

DeviceName(client_info) == <<"Device", Take(client_info.ip_address, NameLen)>>

(***************************************************************************)
(* State.                                                                  *)
(***************************************************************************)
VARIABLES
    now,                \* the clock, in days
    uuid_count,         \* number of uuid4() values drawn so far
    auth_tables,        \* init_auth_database has created the two auth tables
    authorized_devices, \* rows of table authorized_devices
    login_attempts,     \* rows of table login_attempts
    seq,                \* AUTOINCREMENT counters of the two auth tables
    pending,            \* per session: a save_device_session between its SELECT and its write
    issued,             \* every session token a save_device_session has returned
    secrets,            \* st.secrets: the configured reference hash, if any
    session_state,      \* per browser session: st.session_state, a map from keys to values
    view,               \* per browser session: what the last script run rendered
    failures,           \* per browser session: wrong passwords entered since the form appeared
    trusted_at,         \* per browser session: when its client last logged in opting in to trust
    cwd,                \* the working directory of the process
    tracker_tables,     \* init_database has created the two tracker tables
    syllabus_tracker,   \* rows of table syllabus_tracker
    daily_tasks,        \* rows of table daily_tasks
    tracker_seq,        \* AUTOINCREMENT counters of the two tracker tables
    txn,                \* per session: a tracker write between its call and its commit
    added,              \* the daily tasks added so far (id and date), in the order added
    history,            \* the history handed to calculate_streak
    last                \* the operation that produced this state, its arguments and result

appVars == <<secrets, session_state, view, failures, trusted_at>>

authVars == <<uuid_count, auth_tables, authorized_devices, login_attempts, seq,
              pending, issued>>

trackerVars == <<cwd, tracker_tables, syllabus_tracker, daily_tasks, tracker_seq, txn,
                 added, history>>

restVars == <<now, authVars, appVars>>

vars == <<now, authVars, appVars, trackerVars, last>>

DeviceIds == {uuid4(1), uuid4(2)}

LoginStatuses == {"Auto-login Success", "Login Success", "Login Failed - Wrong Password"}

NoSecrets == [configured |-> FALSE, hash |-> sha256("")]

EmptyState == [k \in {} |-> FALSE]

NoClient == [ip_address |-> IpUnknown, user_agent |-> "Unknown"]

NoLast == [op |-> "none", dev |-> None, client_info |-> NoClient, approved |-> FALSE,
           ok |-> TRUE, ret |-> FALSE, tok |-> None, t |-> 0, sess |-> "", pw |-> "",
           existed |-> FALSE, clean |-> TRUE,
           id |-> 0, done |-> FALSE, status |-> "", name |-> "", date |-> None,
           rows |-> <<>>, stats |-> {}, score |-> "", n |-> 0, reps |-> 0,
           info |-> ""]

NoPending == [active |-> FALSE, dev |-> None, client_info |-> NoClient,
              approved |-> FALSE, tok |-> None, expiry |-> None, t |-> 0,
              existing |-> FALSE, clean |-> TRUE]

(***************************************************************************)
(* The tracker store (DB_PATH, line 863): syllabus_tracker and daily_tasks *)
(* as init_database declares them, with their AUTOINCREMENT counters.      *)
(* The functions below are the statements of lines 866-1010 on a store     *)
(* db = [tables, syllabus, tasks, seqs].                                   *)
(***************************************************************************)
\* Lines 894-947: (phase, subject, chapter).
syllabus_data ==
    <<
      <<"Phase 1 (Wk 1-2)", "Physics", "Units & Dimensions, Kinematics, NLM, Friction">>,
      <<"Phase 1 (Wk 1-2)", "Physics", "Work Energy Power, Circular Motion (Basics)">>,
      <<"Phase 1 (Wk 1-2)", "Chemistry", "Mole Concept, States of Matter, Thermodynamics">>,
      <<"Phase 1 (Wk 1-2)", "Chemistry", "Chemical Equilibrium, Ionic Equilibrium">>,
      <<"Phase 1 (Wk 1-2)", "Maths", "Quadratic Eq, Complex Numbers, Seq & Series">>,
      <<"Phase 1 (Wk 1-2)", "Maths", "Polynomials, Matrices, Determinants">>,
      <<"Phase 1 (Wk 3-4)", "Physics", "COM, Rotational (Basics), Gravitation, SHM">>,
      <<"Phase 1 (Wk 3-4)", "Physics", "Waves, Doppler, Fluid Basics">>,
      <<"Phase 1 (Wk 3-4)", "Chemistry", "GOC, Isomerism, Hydrocarbons">>,
      <<"Phase 1 (Wk 3-4)", "Chemistry", "Alkyl Halides, Alcohols, Phenols, Ethers">>,
      <<"Phase 1 (Wk 3-4)", "Maths", "Trigonometry, PnC, Probability Basics">>,
      <<"Phase 1 (Wk 3-4)", "Maths", "Straight Lines, Circles, Parabola (Formulas only)">>,
      <<"Phase 1 (Wk 5)", "Physics", "Electrostatics (Field/Potential), Capacitance">>,
      <<"Phase 1 (Wk 5)", "Physics", "Current Electricity (Kirchhoff Basics)">>,
      <<"Phase 1 (Wk 5)", "Chemistry", "Aldehydes, Ketones, Carboxylic Acids">>,
      <<"Phase 1 (Wk 5)", "Chemistry", "Amines, Biomolecules, Polymers">>,
      <<"Phase 1 (Wk 5)", "Maths", "Vectors, 3D Geometry">>,
      <<"Phase 1 (Wk 6)", "Physics", "Magnetism, Moving Charges, EMI, AC">>,
      <<"Phase 1 (Wk 6)", "Chemistry", "Periodic Table, Bonding">>,
      <<"Phase 1 (Wk 6)", "Chemistry", "s-Block, p-Block (Imp NCERT lines)">>,
      <<"Phase 1 (Wk 6)", "Maths", "Calculus Base: Limits, Derivatives">>,
      <<"Phase 1 (Wk 7-8)", "Physics", "Ray Optics, Optical Instruments">>,
      <<"Phase 1 (Wk 7-8)", "Physics", "Modern Physics, Semiconductors">>,
      <<"Phase 1 (Wk 7-8)", "Chemistry", "Coordination Compounds, d&f Block">>,
      <<"Phase 1 (Wk 7-8)", "Chemistry", "Hydrogen, Environmental Chem, Full NCERT Rev">>,
      <<"Phase 1 (Wk 7-8)", "Maths", "Calculus: AOD, Integration, Area Under Curve">>,
      <<"Phase 2 (Days 61-80)", "Chemistry", "Full NCERT Rev + Exemplar + 5 PYQ Papers">>,
      <<"Phase 2 (Days 61-80)", "Physics", "7 Days Pure PYQs (Mech + Modern + Optics)">>,
      <<"Phase 2 (Days 61-80)", "Maths", "PYQ Focus (Algebra + Coordinate + Calculus)">>,
      <<"Phase 2 (Days 61-80)", "Mock Tests", "Mini Mocks (Target 100-120 Marks)">>,
      <<"Phase 3 (Days 81-110)", "Mocks", "15 Full Mocks (1 every 2 days)">>,
      <<"Phase 3 (Days 81-110)", "Analysis", "Error Notebook (Concept vs Silly Mistakes)">>,
      <<"Phase 3 (Days 81-110)", "Target", "Score Goal: 130 -> 145 -> 160+">>,
      <<"Phase 4 (Days 111-120)", "Revision", "All Formula Rev + NCERT Scan">>,
      <<"Phase 4 (Days 111-120)", "Mocks", "6 Mini Mocks (Accuracy Focus)">>
    >>

StatusOptions == {"Not Started", "In Progress", "Completed"}

NoStore == [tables |-> FALSE, syllabus |-> {}, tasks |-> {},
            seqs |-> [syllabus_tracker |-> 0, daily_tasks |-> 0]]

\* Lines 949-951: one INSERT per catalog entry; status takes its column default.
populate_syllabus(db) ==
    [db EXCEPT
       !.syllabus = @ \cup { [id |-> db.seqs.syllabus_tracker + i,
                              phase |-> syllabus_data[i][1],
                              subject |-> syllabus_data[i][2],
                              chapter |-> syllabus_data[i][3],
                              status |-> "Not Started"] : i \in 1..Len(syllabus_data) },
       !.seqs = [@ EXCEPT !.syllabus_tracker = @ + Len(syllabus_data)]]

populate_syllabus_always(db) == populate_syllabus([db EXCEPT !.tables = TRUE])

\* Lines 866-891.
init_database(db) ==
    LET created == [db EXCEPT !.tables = TRUE]
    IN IF Cardinality(created.syllabus) = 0 THEN populate_syllabus(created) ELSE created

\* Plain INTEGER PRIMARY KEY: the next id is one more than the largest id present.
NextTaskId_rowid(db) ==
    IF db.tasks = {} THEN 1
    ELSE (CHOOSE r \in db.tasks : \A q \in db.tasks : q.id <= r.id).id + 1

\* Line 880, id INTEGER PRIMARY KEY AUTOINCREMENT: one more than the largest id
\* the table has ever held.
NextTaskId(db) == db.seqs.daily_tasks + 1

\* Lines 954-960.
add_daily_task(db, task_name, task_date) ==
    LET id == NextTaskId(db)
    IN [db EXCEPT
          !.tasks = @ \cup { [id |-> id, task_name |-> task_name, date |-> task_date,
                              is_completed |-> 0] },
          !.seqs = [@ EXCEPT !.daily_tasks = IF id > @ THEN id ELSE @]]

\* ORDER BY id.
RECURSIVE OrderById(_)
OrderById(rows) ==
    IF rows = {} THEN <<>>
    ELSE LET first == CHOOSE r \in rows : \A q \in rows : r.id <= q.id
         IN <<first>> \o OrderById(rows \ {first})

\* Lines 962-968.
get_daily_tasks(db, task_date) == OrderById({ r \in db.tasks : r.date = task_date })

update_task_status_all(db, task_id, is_completed) ==
    [db EXCEPT !.tasks = { [r EXCEPT !.is_completed = IF is_completed THEN 1 ELSE 0]
                           : r \in @ }]

update_task_status_counting(db, task_id, is_completed) ==
    [db EXCEPT !.tasks = { IF r.id = task_id
                           THEN [r EXCEPT !.is_completed = IF is_completed THEN @ + 1 ELSE 0]
                           ELSE r : r \in @ }]

\* Lines 970-976.
update_task_status(db, task_id, is_completed) ==
    [db EXCEPT !.tasks = { IF r.id = task_id
                           THEN [r EXCEPT !.is_completed = IF is_completed THEN 1 ELSE 0]
                           ELSE r : r \in @ }]

\* Lines 978-983.
delete_task(db, task_id) == [db EXCEPT !.tasks = { r \in @ : r.id # task_id }]

\* Lines 985-989.
get_syllabus_data(db) == OrderById(db.syllabus)

\* Lines 991-997.
update_syllabus_status(db, chapter_id, status) ==
    [db EXCEPT !.syllabus = { IF r.id = chapter_id THEN [r EXCEPT !.status = status]
                              ELSE r : r \in @ }]

\* SUM over the rows of a group.
RECURSIVE Sum(_, _)
Sum(rows, col) ==
    IF rows = {} THEN 0
    ELSE LET r == CHOOSE x \in rows : TRUE IN r[col] + Sum(rows \ {r}, col)

\* Lines 999-1010: GROUP BY phase.
get_completion_stats(db) ==
    { [phase |-> p,
       total |-> Cardinality({ r \in db.syllabus : r.phase = p }),
       completed |-> Cardinality({ r \in db.syllabus :
                                       r.phase = p /\ r.status = "Completed" })]
      : p \in { r.phase : r \in db.syllabus } }

PhaseKeys_labels ==
    [A |-> "Phase 1 (Wk 1-2)", B |-> "Phase 2 (Days 61-80)",
     C |-> "Phase 3 (Days 81-110)", D |-> "Phase 4 (Days 111-120)"]

\* Lines 1076-1084: the labels the score tiers select rows by.
PhaseKeys == [A |-> "A", B |-> "B", C |-> "C", D |-> "D"]

\* Lines 1067-1095.  x > y * 0.7 is 10 * x > 7 * y.
calculate_projected_score(stats_df) ==
    LET total_items == Sum(stats_df, "total")
        of(k, col) == Sum({ r \in stats_df : r.phase = PhaseKeys[k] }, col)
    IN IF total_items = 0 THEN "Start your journey!"
       ELSE IF 10 * of("D", "completed") > 7 * of("D", "total")
       THEN "Projected: 120-150 Marks"
       ELSE IF 10 * of("C", "completed") > 7 * of("C", "total")
       THEN "Projected: 95-125 Marks"
       ELSE IF 10 * of("B", "completed") > 7 * of("B", "total")
       THEN "Projected: 80-100 Marks"
       ELSE IF 10 * of("A", "completed") > 7 * of("A", "total")
       THEN "Projected: 50-70 Marks"
       ELSE "Projected: 20-50 Marks"

(***************************************************************************)
(* The efficiency report (lines 440-464) and the streak (lines 614-625).   *)
(* A percentage is held in tenths of a percent: efficiency_percent = 667   *)
(* is 66.7.                                                                *)
(***************************************************************************)
\* TEXT comparison: character by character, a proper prefix first.
RECURSIVE TextLess(_, _)
TextLess(a, b) ==
    IF Len(b) = 0 THEN FALSE
    ELSE IF Len(a) = 0 THEN TRUE
    ELSE IF Head(a) # Head(b) THEN Head(a) < Head(b)
    ELSE TextLess(Tail(a), Tail(b))

\* ROUND(CAST(s AS FLOAT) / n * 100, 1): to the nearest tenth, a half away from zero.
Round1(s, n) == (2000 * s + n) \div (2 * n)

\* GROUP BY date: one group per date value present in the table.
GroupByDate(tasks) ==
    { [date |-> d,
       total_tasks |-> Cardinality({ r \in tasks : r.date = d }),
       completed_tasks |-> Sum({ r \in tasks : r.date = d }, "is_completed"),
       efficiency_percent |-> Round1(Sum({ r \in tasks : r.date = d }, "is_completed"),
                                     Cardinality({ r \in tasks : r.date = d }))]
      : d \in { r.date : r \in tasks } }

\* ORDER BY date DESC.
RECURSIVE OrderByDateDesc(_)
OrderByDateDesc(groups) ==
    IF groups = {} THEN <<>>
    ELSE LET first == CHOOSE g \in groups : \A q \in groups : ~TextLess(g.date, q.date)
         IN <<first>> \o OrderByDateDesc(groups \ {first})

\* Lines 440-464 on the database file the relative path names: the query raises
\* when that file has no daily_tasks table.
get_efficiency_history(db) ==
    IF db.tables
    THEN [ok |-> TRUE, rows |-> OrderByDateDesc(GroupByDate(db.tasks))]
    ELSE [ok |-> FALSE, rows |-> <<>>]

calculate_streak_strict(history_df) ==
    LET broken == { i \in 1..Len(history_df) : ~(history_df[i].efficiency_percent > 500) }
    IN IF broken = {} THEN Len(history_df)
       ELSE (CHOOSE i \in broken : \A j \in broken : i <= j) - 1

\* Lines 614-625.
RECURSIVE calculate_streak(_)
calculate_streak(history_df) ==
    IF Len(history_df) = 0 THEN 0
    ELSE IF Head(history_df).efficiency_percent >= 500
    THEN 1 + calculate_streak(Tail(history_df))
    ELSE 0

(***************************************************************************)
(* The tracker store as state, and its functions each called as a whole.   *)
(***************************************************************************)
WorkingDirs == {"script_dir", "elsewhere"}

TaskDays == {9, 10}

TaskDates == { isoformat(t) : t \in TaskDays }

TaskNames == {"Solve 20 PYQs on Kinematics"}

TaskIds == 1..(MaxTasks + 1)

\* The last MaxItems entries of the catalog, and one id past its end.
ItemIds == { i \in 1..(Len(syllabus_data) + 1) : i > Len(syllabus_data) - MaxItems }

StatusInputs == StatusOptions \cup {"Skipped"}

NoTxn == [phase |-> "idle", kind |-> "", id |-> 0, done |-> FALSE, status |-> "",
          overlapped |-> FALSE, beaten |-> FALSE, count |-> 0]

Tdb == [tables |-> tracker_tables, syllabus |-> syllabus_tracker, tasks |-> daily_tasks,
        seqs |-> tracker_seq]

StoreTdb(db) ==
    /\ tracker_tables' = db.tables
    /\ syllabus_tracker' = db.syllabus
    /\ daily_tasks' = db.tasks
    /\ tracker_seq' = db.seqs

\* What 'study_tracker.db', opened relative to the working directory, names: the
\* file DB_PATH names when the working directory is the script's, another file
\* (which no statement of the program gives tracker tables) otherwise.
ReportDb == IF cwd = "script_dir" THEN Tdb ELSE NoStore

\* How many times in succession the same call with the same arguments has been made.
Reps(op, id, done, status) ==
    IF last.op = op /\ last.id = id /\ last.done = done /\ last.status = status
    THEN (IF last.reps < MaxReps THEN last.reps + 1 ELSE last.reps)
    ELSE 1

\* Line 1098 as part of a script run: reached only when the gate lets the run pass.
PageInit(ret) ==
    /\ IF ret THEN StoreTdb(init_database(Tdb))
       ELSE UNCHANGED <<tracker_tables, syllabus_tracker, daily_tasks, tracker_seq>>
    /\ UNCHANGED <<cwd, txn, added, history>>

InitDatabase ==
    /\ \A s \in Sessions : txn[s].phase # "writing"
    /\ StoreTdb(init_database(Tdb))
    /\ last' = [NoLast EXCEPT !.op = "init_database", !.t = now,
                              !.reps = Reps("init_database", 0, FALSE, "")]
    /\ UNCHANGED <<cwd, txn, added, history>>
    /\ UNCHANGED restVars

AddDailyTask(task_name, task_date) ==
    /\ Len(added) < MaxTasks
    /\ \A s \in Sessions : txn[s].phase # "writing"
    /\ LET base == [NoLast EXCEPT !.op = "add_daily_task", !.name = task_name,
                                  !.date = task_date, !.t = now]
       IN IF tracker_tables
          THEN /\ StoreTdb(add_daily_task(Tdb, task_name, task_date))
               /\ added' = Append(added, [id |-> NextTaskId(Tdb), date |-> task_date])
               /\ last' = [base EXCEPT !.id = NextTaskId(Tdb)]
          ELSE /\ last' = [base EXCEPT !.ok = FALSE]
               /\ UNCHANGED <<tracker_tables, syllabus_tracker, daily_tasks, tracker_seq,
                              added>>
    /\ UNCHANGED <<cwd, txn, history>>
    /\ UNCHANGED restVars

GetDailyTasks(task_date) ==
    /\ LET base == [NoLast EXCEPT !.op = "get_daily_tasks", !.date = task_date, !.t = now]
       IN last' = IF tracker_tables
                  THEN [base EXCEPT !.rows = get_daily_tasks(Tdb, task_date)]
                  ELSE [base EXCEPT !.ok = FALSE]
    /\ UNCHANGED trackerVars
    /\ UNCHANGED restVars

UpdateTaskStatus(task_id, is_completed) ==
    /\ \A s \in Sessions : txn[s].phase # "writing"
    /\ LET base == [NoLast EXCEPT !.op = "update_task_status", !.id = task_id,
                                  !.done = is_completed, !.t = now,
                                  !.reps = Reps("update_task_status", task_id,
                                                is_completed, "")]
       IN IF tracker_tables
          THEN /\ StoreTdb(update_task_status(Tdb, task_id, is_completed))
               /\ last' = base
          ELSE /\ last' = [base EXCEPT !.ok = FALSE]
               /\ UNCHANGED <<tracker_tables, syllabus_tracker, daily_tasks, tracker_seq>>
    /\ UNCHANGED <<cwd, txn, added, history>>
    /\ UNCHANGED restVars

DeleteTask(task_id) ==
    /\ \A s \in Sessions : txn[s].phase # "writing"
    /\ LET base == [NoLast EXCEPT !.op = "delete_task", !.id = task_id, !.t = now,
                                  !.reps = Reps("delete_task", task_id, FALSE, "")]
       IN IF tracker_tables
          THEN /\ StoreTdb(delete_task(Tdb, task_id))
               /\ last' = base
          ELSE /\ last' = [base EXCEPT !.ok = FALSE]
               /\ UNCHANGED <<tracker_tables, syllabus_tracker, daily_tasks, tracker_seq>>
    /\ UNCHANGED <<cwd, txn, added, history>>
    /\ UNCHANGED restVars

UpdateSyllabusStatus(chapter_id, status) ==
    /\ \A s \in Sessions : txn[s].phase # "writing"
    /\ LET base == [NoLast EXCEPT !.op = "update_syllabus_status", !.id = chapter_id,
                                  !.status = status, !.t = now,
                                  !.reps = Reps("update_syllabus_status", chapter_id,
                                                FALSE, status)]
       IN IF tracker_tables
          THEN /\ StoreTdb(update_syllabus_status(Tdb, chapter_id, status))
               /\ last' = base
          ELSE /\ last' = [base EXCEPT !.ok = FALSE]
               /\ UNCHANGED <<tracker_tables, syllabus_tracker, daily_tasks, tracker_seq>>
    /\ UNCHANGED <<cwd, txn, added, history>>
    /\ UNCHANGED restVars

\* Lines 1107-1108: the sidebar's statistics and score.
ProjectedScore ==
    /\ LET base == [NoLast EXCEPT !.op = "calculate_projected_score", !.t = now]
       IN last' = IF tracker_tables
                  THEN [base EXCEPT !.stats = get_completion_stats(Tdb),
                                    !.score = calculate_projected_score(
                                                  get_completion_stats(Tdb))]
                  ELSE [base EXCEPT !.ok = FALSE]
    /\ UNCHANGED trackerVars
    /\ UNCHANGED restVars

GetEfficiencyHistory ==
    /\ LET res == get_efficiency_history(ReportDb)
       IN last' = [NoLast EXCEPT !.op = "get_efficiency_history", !.t = now,
                                 !.ok = res.ok, !.rows = res.rows]
    /\ UNCHANGED trackerVars
    /\ UNCHANGED restVars

\* calculate_streak applied to the history it is handed (line 581).
CalculateStreak ==
    /\ last' = [NoLast EXCEPT !.op = "calculate_streak", !.t = now,
                              !.n = calculate_streak(history)]
    /\ UNCHANGED trackerVars
    /\ UNCHANGED restVars

TrackerInit(dirs) ==
    /\ cwd \in dirs
    /\ tracker_tables = FALSE
    /\ syllabus_tracker = {}
    /\ daily_tasks = {}
    /\ tracker_seq = [syllabus_tracker |-> 0, daily_tasks |-> 0]
    /\ txn = [s \in Sessions |-> NoTxn]
    /\ added = <<>>

\* Nothing has run yet: no auth tables, no session, no secret configured.
QuietInit ==
    /\ now = 0
    /\ uuid_count = 0
    /\ auth_tables = FALSE
    /\ authorized_devices = {}
    /\ login_attempts = {}
    /\ seq = [authorized_devices |-> 0, login_attempts |-> 0]
    /\ pending = [s \in Sessions |-> NoPending]
    /\ issued = {}
    /\ secrets = NoSecrets
    /\ session_state = [s \in Sessions |-> EmptyState]
    /\ view = [s \in Sessions |-> "none"]
    /\ failures = [s \in Sessions |-> 0]
    /\ trusted_at = [s \in Sessions |-> -1]
    /\ last = NoLast

(***************************************************************************)
(* The daily tasks and the efficiency report.                              *)
(***************************************************************************)
InitTasks == QuietInit /\ TrackerInit(WorkingDirs) /\ history = <<>>

NextTasks ==
    \/ InitDatabase
    \/ \E n \in TaskNames, d \in TaskDates : AddDailyTask(n, d)
    \/ \E d \in TaskDates : GetDailyTasks(d)
    \/ \E i \in TaskIds, b \in BOOLEAN : UpdateTaskStatus(i, b)
    \/ \E i \in TaskIds : DeleteTask(i)
    \/ GetEfficiencyHistory

SpecTasks == InitTasks /\ [][NextTasks]_vars

(***************************************************************************)
(* The syllabus: seeding, status updates and the projected score, one call *)
(* after another.                                                          *)
(***************************************************************************)
InitSyllabus == QuietInit /\ TrackerInit({"script_dir"}) /\ history = <<>>

NextSyllabus ==
    \/ InitDatabase
    \/ \E i \in ItemIds, st \in StatusInputs : UpdateSyllabusStatus(i, st)
    \/ ProjectedScore

SpecSyllabus == InitSyllabus /\ [][NextSyllabus]_vars

(***************************************************************************)
(* Two sessions (tabs) writing the same rows.  An update call is: connect  *)
(* (UpdateCall), execute the UPDATE, which takes the database's write lock *)
(* and waits while another connection holds it (UpdateExecute), commit     *)
(* (UpdateCommit).                                                         *)
(***************************************************************************)
SharedTaskIds == 1..MaxShared

SharedItemIds == { Len(syllabus_data) + 2 - k : k \in 2..MaxShared }

InFlight(s) == txn[s].phase # "idle"

\* What a transaction writes and what it wrote over.
SameRow(a, b) == a.kind = b.kind /\ a.id = b.id

SameValue(a, b) == a.done = b.done /\ a.status = b.status

Publish_unless_beaten(db, tx) ==
    IF tx.beaten THEN db
    ELSE IF tx.kind = "task" THEN update_task_status(db, tx.id, tx.done)
    ELSE update_syllabus_status(db, tx.id, tx.status)

\* The UPDATE of lines 973 / 994, made visible by conn.commit().
Publish(db, tx) ==
    IF tx.kind = "task" THEN update_task_status(db, tx.id, tx.done)
    ELSE update_syllabus_status(db, tx.id, tx.status)

UpdateCall(s, kind, id, done, status) ==
    /\ tracker_tables
    /\ ~InFlight(s)
    /\ txn' = [x \in Sessions |->
                 IF x = s
                 THEN [NoTxn EXCEPT !.phase = "called", !.kind = kind, !.id = id,
                                    !.done = done, !.status = status,
                                    !.overlapped = \E y \in Sessions \ {s} : InFlight(y)]
                 ELSE IF InFlight(x) THEN [txn[x] EXCEPT !.overlapped = TRUE]
                 ELSE txn[x]]
    /\ last' = [NoLast EXCEPT !.op = "update_call", !.sess = s]
    /\ UNCHANGED <<cwd, tracker_tables, syllabus_tracker, daily_tasks, tracker_seq,
                   added, history>>
    /\ UNCHANGED restVars

UpdateExecute(s) ==
    /\ txn[s].phase = "called"
    /\ \A x \in Sessions : txn[x].phase # "writing"
    /\ txn' = [txn EXCEPT ![s].phase = "writing"]
    /\ last' = [NoLast EXCEPT !.op = "update_execute", !.sess = s]
    /\ UNCHANGED <<cwd, tracker_tables, syllabus_tracker, daily_tasks, tracker_seq,
                   added, history>>
    /\ UNCHANGED restVars

UpdateCommit(s) ==
    /\ txn[s].phase = "writing"
    /\ StoreTdb(Publish(Tdb, txn[s]))
    /\ txn' = [x \in Sessions |->
                 IF x = s THEN NoTxn
                 ELSE IF InFlight(x) /\ SameRow(txn[x], txn[s])
                         /\ ~SameValue(txn[x], txn[s])
                 THEN [txn[x] EXCEPT !.beaten = TRUE]
                 ELSE txn[x]]
    /\ last' = [NoLast EXCEPT
                   !.op = IF txn[s].kind = "task" THEN "update_task_status"
                          ELSE "update_syllabus_status",
                   !.sess = s, !.id = txn[s].id, !.done = txn[s].done,
                   !.status = txn[s].status, !.t = now,
                   !.clean = ~txn[s].overlapped, !.existed = txn[s].beaten]
    /\ UNCHANGED <<cwd, added, history>>
    /\ UNCHANGED restVars

NextUpdates ==
    \/ InitDatabase
    \/ \E n \in TaskNames : AddDailyTask(n, isoformat(1))
    \/ \E s \in Sessions, i \in SharedTaskIds, b \in BOOLEAN :
           UpdateCall(s, "task", i, b, "")
    \/ \E s \in Sessions, i \in SharedItemIds, st \in StatusOptions :
           UpdateCall(s, "syllabus", i, FALSE, st)
    \/ \E s \in Sessions : UpdateExecute(s)
    \/ \E s \in Sessions : UpdateCommit(s)

SpecUpdates == InitSyllabus /\ [][NextUpdates]_vars

(***************************************************************************)
(* init_database (lines 866-891) run by two sessions at once, statement by *)
(* statement.  The connection is in sqlite3's default transaction mode:    *)
(* CREATE TABLE and SELECT run outside a transaction and take effect at    *)
(* once; the first INSERT opens a transaction, which holds the write lock  *)
(* until conn.commit() and whose rows no other connection sees before.     *)
(* A statement that needs the write lock waits while another connection    *)
(* holds it.                                                               *)
(***************************************************************************)
\* Lines 867-882: connect, CREATE TABLE IF NOT EXISTS twice.  While another
\* connection holds the write lock the tables exist and the statements change nothing.
SeedCreate(s) ==
    /\ ~InFlight(s)
    /\ tracker_tables' = TRUE
    /\ txn' = [txn EXCEPT ![s] = [NoTxn EXCEPT !.phase = "created", !.kind = "seed"]]
    /\ last' = [NoLast EXCEPT !.op = "seed_create", !.sess = s]
    /\ UNCHANGED <<cwd, syllabus_tracker, daily_tasks, tracker_seq, added, history>>
    /\ UNCHANGED restVars

\* Lines 885-886: SELECT COUNT(*) sees the committed rows.
SeedCount(s) ==
    /\ txn[s].phase = "created"
    /\ txn' = [txn EXCEPT ![s].phase = "counted",
                          ![s].count = Cardinality(syllabus_tracker)]
    /\ last' = [NoLast EXCEPT !.op = "seed_count", !.sess = s,
                              !.n = Cardinality(syllabus_tracker)]
    /\ UNCHANGED <<cwd, tracker_tables, syllabus_tracker, daily_tasks, tracker_seq,
                   added, history>>
    /\ UNCHANGED restVars

\* Lines 886-887, 949-951: the count decides; the INSERTs take the write lock.
SeedInsert(s) ==
    /\ txn[s].phase = "counted"
    /\ txn[s].count = 0
    /\ \A x \in Sessions : txn[x].phase # "writing"
    /\ txn' = [txn EXCEPT ![s].phase = "writing"]
    /\ last' = [NoLast EXCEPT !.op = "seed_insert", !.sess = s]
    /\ UNCHANGED <<cwd, tracker_tables, syllabus_tracker, daily_tasks, tracker_seq,
                   added, history>>
    /\ UNCHANGED restVars

\* Line 950 when the wait for the write lock outlasts the connection's timeout
\* (sqlite3.connect's default): the INSERT raises and the run ends.
SeedTimeout(s) ==
    /\ txn[s].phase = "counted"
    /\ txn[s].count = 0
    /\ \E x \in Sessions : txn[x].phase = "writing"
    /\ txn' = [txn EXCEPT ![s] = NoTxn]
    /\ last' = [NoLast EXCEPT !.op = "init_database", !.sess = s, !.t = now,
                              !.ok = FALSE]
    /\ UNCHANGED <<cwd, tracker_tables, syllabus_tracker, daily_tasks, tracker_seq,
                   added, history>>
    /\ UNCHANGED restVars

\* Lines 889-890: conn.commit() publishes the inserted rows, if any were inserted.
SeedCommit(s) ==
    /\ \/ txn[s].phase = "writing"
       \/ txn[s].phase = "counted" /\ txn[s].count # 0
    /\ StoreTdb(IF txn[s].phase = "writing" THEN populate_syllabus(Tdb) ELSE Tdb)
    /\ txn' = [txn EXCEPT ![s] = NoTxn]
    /\ last' = [NoLast EXCEPT !.op = "init_database", !.sess = s, !.t = now,
                              !.n = txn[s].count,
                              !.existed = txn[s].phase = "writing"]
    /\ UNCHANGED <<cwd, added, history>>
    /\ UNCHANGED restVars

NextSeed ==
    \/ \E s \in Sessions : SeedCreate(s)
    \/ \E s \in Sessions : SeedCount(s)
    \/ \E s \in Sessions : SeedInsert(s)
    \/ \E s \in Sessions : SeedTimeout(s)
    \/ \E s \in Sessions : SeedCommit(s)

\* init_database opens DB_PATH, whatever the working directory.
InitSeed == QuietInit /\ TrackerInit(WorkingDirs) /\ history = <<>>

SpecSeed == InitSeed /\ [][NextSeed]_vars

(***************************************************************************)
(* calculate_streak on histories of every shape up to MaxHistory rows.     *)
(***************************************************************************)
StreakPercents == {300, 400, 499, 500, 700, 900, 950}

Histories ==
    UNION { [1..n -> [efficiency_percent : StreakPercents]] : n \in 0..MaxHistory }

InitStreak == QuietInit /\ TrackerInit({"script_dir"}) /\ history \in Histories

NextStreak == CalculateStreak

SpecStreak == InitStreak /\ [][NextStreak]_vars

(***************************************************************************)
(* The page as a user drives it (lines 1098-1257).  Every widget event is  *)
(* one script run: init_database (line 1098), the sidebar, whose           *)
(* get_efficiency_history (line 1128) ends the run when it raises, then    *)
(* the tabs, where the handler of the widget that changed calls a store    *)
(* function and st.rerun().  The gate of line 289 has let the run pass.    *)
(***************************************************************************)
Today == isoformat(9)

TaskTexts == TaskNames \cup {""}

PageTaskIds == 1..(MaxPageTasks + 1)

ReportOf(db) == IF cwd = "script_dir" THEN db ELSE NoStore

\* The store once line 1098 has run.
Served == init_database(Tdb)

\* The run gets past the sidebar and draws the tabs.
Drawn == get_efficiency_history(ReportOf(Served)).ok

\* Lines 1175-1204: one checkbox and one delete button per task of today.
TaskWidget(db, task_id) == \E r \in db.tasks : r.id = task_id /\ r.date = Today

\* Lines 1230-1242: within the selected phase, subjects in the order of their
\* first row, rows in id order.
DrawnBefore(db, q, r) ==
    LET first(s) == CHOOSE i \in { x.id : x \in { y \in db.syllabus :
                                       y.phase = r.phase /\ y.subject = s } } :
                        \A x \in db.syllabus :
                            x.phase = r.phase /\ x.subject = s => i <= x.id
    IN /\ q.phase = r.phase
       /\ \/ q.subject = r.subject /\ q.id < r.id
          \/ q.subject # r.subject /\ first(q.subject) < first(r.subject)

\* Lines 1244-1252: the selectbox of a row is drawn when the row is in the table
\* and status_options.index(current_status) has raised for no row up to it.
StatusWidget(db, chapter_id) ==
    \E r \in db.syllabus :
        /\ r.id = chapter_id
        /\ r.status \in StatusOptions
        /\ \A q \in db.syllabus : DrawnBefore(db, q, r) => q.status \in StatusOptions

CurrentStatus(db, chapter_id) == (CHOOSE r \in db.syllabus : r.id = chapter_id).status

IsCompleted(db, task_id) == (CHOOSE r \in db.tasks : r.id = task_id).is_completed = 1

PageFrame ==
    /\ \A s \in Sessions : txn[s].phase # "writing"
    /\ UNCHANGED <<cwd, txn, history>>
    /\ UNCHANGED restVars

\* A widget event comes from a page an earlier run has drawn.
Rendered == tracker_tables /\ get_efficiency_history(ReportDb).ok

\* A run no handler acts in.
PageLoad ==
    /\ StoreTdb(Served)
    /\ last' = [NoLast EXCEPT !.op = "page_load", !.ok = Drawn, !.t = now]
    /\ UNCHANGED added
    /\ PageFrame

\* Lines 1160-1169.
AddTaskClicked(new_task) ==
    /\ Rendered
    /\ Len(added) < MaxPageTasks
    /\ LET act == Drawn /\ new_task # ""
       IN /\ StoreTdb(IF act THEN add_daily_task(Served, new_task, Today) ELSE Served)
          /\ added' = IF act
                      THEN Append(added, [id |-> NextTaskId(Served), date |-> Today])
                      ELSE added
          /\ last' = [NoLast EXCEPT !.op = "add_task_clicked", !.ok = act,
                                    !.name = new_task, !.date = Today, !.t = now,
                                    !.id = IF act THEN NextTaskId(Served) ELSE 0]
    /\ PageFrame

\* Lines 1184-1193.
TaskChecked(task_id, checked) ==
    /\ Rendered
    /\ LET act == Drawn /\ TaskWidget(Served, task_id)
                  /\ checked # IsCompleted(Served, task_id)
       IN /\ StoreTdb(IF act THEN update_task_status(Served, task_id, checked)
                      ELSE Served)
          /\ last' = [NoLast EXCEPT !.op = "task_checked", !.ok = act, !.id = task_id,
                                    !.done = checked, !.t = now]
    /\ UNCHANGED added
    /\ PageFrame

\* Lines 1201-1204.
DeleteClicked(task_id) ==
    /\ Rendered
    /\ LET act == Drawn /\ TaskWidget(Served, task_id)
       IN /\ StoreTdb(IF act THEN delete_task(Served, task_id) ELSE Served)
          /\ last' = [NoLast EXCEPT !.op = "delete_clicked", !.ok = act,
                                    !.id = task_id, !.t = now]
    /\ UNCHANGED added
    /\ PageFrame

StatusSelected_free_text(chapter_id, new_status) ==
    /\ Rendered
    /\ new_status \in StatusInputs
    /\ LET act == Drawn /\ StatusWidget(Served, chapter_id)
                  /\ new_status # CurrentStatus(Served, chapter_id)
       IN /\ StoreTdb(IF act THEN update_syllabus_status(Served, chapter_id, new_status)
                      ELSE Served)
          /\ last' = [NoLast EXCEPT !.op = "status_selected", !.ok = act,
                                    !.id = chapter_id, !.status = new_status, !.t = now]
    /\ UNCHANGED added
    /\ PageFrame

\* Lines 1244-1257: the selectbox returns one of status_options.
StatusSelected(chapter_id, new_status) ==
    /\ Rendered
    /\ new_status \in StatusOptions
    /\ LET act == Drawn /\ StatusWidget(Served, chapter_id)
                  /\ new_status # CurrentStatus(Served, chapter_id)
       IN /\ StoreTdb(IF act THEN update_syllabus_status(Served, chapter_id, new_status)
                      ELSE Served)
          /\ last' = [NoLast EXCEPT !.op = "status_selected", !.ok = act,
                                    !.id = chapter_id, !.status = new_status, !.t = now]
    /\ UNCHANGED added
    /\ PageFrame

InitPage == QuietInit /\ TrackerInit(WorkingDirs) /\ history = <<>>

NextPage ==
    \/ PageLoad
    \/ \E n \in TaskTexts : AddTaskClicked(n)
    \/ \E i \in PageTaskIds, b \in BOOLEAN : TaskChecked(i, b)
    \/ \E i \in PageTaskIds : DeleteClicked(i)
    \/ \E i \in ItemIds, st \in StatusInputs : StatusSelected(i, st)

SpecPage == InitPage /\ [][NextPage]_vars

(***************************************************************************)
(* init_auth_database: CREATE TABLE IF NOT EXISTS for both tables.         *)
(* device_id is declared UNIQUE NOT NULL.                                  *)
(***************************************************************************)
UniqueViolation_dropped(devs, device_id) == FALSE

UniqueViolation(devs, device_id) == \E r \in devs : r.device_id = device_id

(***************************************************************************)
(* save_device_session: SELECT, then UPDATE or INSERT, then commit.        *)
(***************************************************************************)
SelectDevice(devs, device_id) == { r \in devs : r.device_id = device_id }

RowsOf(devs, d) == { r \in devs : r.device_id = d }

UpdateDevice_reapprove(devs, device_id, client_info, token, expiry, ts) ==
    { IF r.device_id = device_id
      THEN [r EXCEPT !.last_login = ts,
                     !.session_token = token,
                     !.token_expiry = expiry,
                     !.ip_address = client_info.ip_address,
                     !.user_agent = client_info.user_agent,
                     !.is_approved = 1]
      ELSE r : r \in devs }

UpdateDevice(devs, device_id, client_info, token, expiry, ts) ==
    { IF r.device_id = device_id
      THEN [r EXCEPT !.last_login = ts,
                     !.session_token = token,
                     !.token_expiry = expiry,
                     !.ip_address = client_info.ip_address,
                     !.user_agent = client_info.user_agent]
      ELSE r : r \in devs }

InsertDevice(devs, id, device_id, client_info, token, expiry, approved, ts) ==
    devs \cup { [id |-> id,
                 device_id |-> device_id,
                 device_name |-> DeviceName(client_info),
                 ip_address |-> client_info.ip_address,
                 user_agent |-> client_info.user_agent,
                 first_login |-> ts,
                 last_login |-> ts,
                 is_approved |-> IF approved THEN 1 ELSE 0,
                 session_token |-> token,
                 token_expiry |-> expiry] }

TokenExpiry_window_end(t) == isoformat((t - (t % TrustDays)) + TrustDays)

TokenExpiry(t) == isoformat(t + TrustDays)

(***************************************************************************)
(* check_device_approval: returns <<approved, token>>.                     *)
(***************************************************************************)
FetchOne(rows) == CHOOSE r \in rows : \A q \in rows : r.id <= q.id

check_device_approval_token_only(devs, device_id, t) ==
    LET rows == SelectDevice(devs, device_id) IN
    IF rows = {} THEN <<FALSE, None>>
    ELSE LET result == FetchOne(rows) IN
         IF result.token_expiry # None /\ fromisoformat(result.token_expiry) > t
         THEN <<TRUE, result.session_token>>
         ELSE <<FALSE, None>>

check_device_approval_inclusive(devs, device_id, t) ==
    LET rows == SelectDevice(devs, device_id) IN
    IF rows = {} THEN <<FALSE, None>>
    ELSE LET result == FetchOne(rows) IN
         IF result.token_expiry # None /\ fromisoformat(result.token_expiry) >= t
         THEN <<result.is_approved # 0, result.session_token>>
         ELSE <<FALSE, None>>

check_device_approval(devs, device_id, t) ==
    LET rows == SelectDevice(devs, device_id) IN
    IF rows = {} THEN <<FALSE, None>>
    ELSE LET result == FetchOne(rows) IN
         IF result.token_expiry # None /\ fromisoformat(result.token_expiry) > t
         THEN <<result.is_approved # 0, result.session_token>>
         ELSE <<FALSE, None>>

(***************************************************************************)
(* log_login_attempt, approve_device, revoke_device, delete_device.        *)
(***************************************************************************)
log_login_attempt(attempts, id, device_id, client_info, status, ts) ==
    attempts \cup { [id |-> id,
                     device_id |-> device_id,
                     ip_address |-> client_info.ip_address,
                     timestamp |-> ts,
                     status |-> status,
                     user_agent |-> client_info.user_agent] }

approve_device(devs, device_id) ==
    { IF r.device_id = device_id THEN [r EXCEPT !.is_approved = 1] ELSE r : r \in devs }

revoke_device(devs, device_id) ==
    { IF r.device_id = device_id THEN [r EXCEPT !.is_approved = 0] ELSE r : r \in devs }

DeleteDeviceRows_kept(devs, device_id) == devs

DeleteDeviceRows(devs, device_id) == { r \in devs : r.device_id # device_id }

DeleteAttemptRows_all(attempts, device_id) == {}

DeleteAttemptRows(attempts, device_id) == { r \in attempts : r.device_id # device_id }

(***************************************************************************)
(* The admin panel's queries: get_all_devices and get_login_history.  A    *)
(* query on a table that does not exist raises; both functions catch every *)
(* exception and return an empty DataFrame.                                *)
(***************************************************************************)
\* ORDER BY col DESC; rows with equal values come in id order.
RECURSIVE OrderDesc(_, _)
OrderDesc(rows, col) ==
    IF rows = {} THEN <<>>
    ELSE LET first == CHOOSE r \in rows : \A q \in rows :
                          \/ r[col] > q[col]
                          \/ r[col] = q[col] /\ r.id <= q.id
         IN <<first>> \o OrderDesc(rows \ {first}, col)

\* A query against the auth tables: its rows, or the exception it raises.
ReadSql(tables, rows) ==
    IF tables THEN [raised |-> FALSE, rows |-> rows] ELSE [raised |-> TRUE, rows |-> <<>>]

Catch_reraise(res) == [ok |-> ~res.raised, rows |-> res.rows]

\* try: df = pd.read_sql_query(...)  except: df = pd.DataFrame()
Catch(res) == [ok |-> TRUE, rows |-> IF res.raised THEN <<>> ELSE res.rows]

\* Lines 298-315.
get_all_devices(tables, devs, t) ==
    LET ordered == OrderDesc(devs, "last_login")
        out == [i \in 1..Len(ordered) |->
                  [id |-> ordered[i].id,
                   device_id |-> ordered[i].device_id,
                   device_name |-> ordered[i].device_name,
                   ip_address |-> ordered[i].ip_address,
                   first_login |-> ordered[i].first_login,
                   last_login |-> ordered[i].last_login,
                   is_approved |-> ordered[i].is_approved,
                   session_status |->
                       IF ordered[i].token_expiry # None
                          /\ fromisoformat(ordered[i].token_expiry) > t
                       THEN "Active" ELSE "Expired"]]
    IN Catch(ReadSql(tables, out))

\* Lines 317-332: login_attempts LEFT JOIN authorized_devices, newest first.
get_login_history(tables, devs, attempts, limit) ==
    LET ordered == OrderDesc(attempts, "timestamp")
        name(d) == IF SelectDevice(devs, d) = {} THEN None
                   ELSE FetchOne(SelectDevice(devs, d)).device_name
        out == [i \in 1..Len(ordered) |->
                  [timestamp |-> ordered[i].timestamp,
                   device_id |-> ordered[i].device_id,
                   ip_address |-> ordered[i].ip_address,
                   status |-> ordered[i].status,
                   device_name |-> name(ordered[i].device_id)]]
    IN Catch(ReadSql(tables, Take(out, limit)))

(***************************************************************************)
(* The write half of save_device_session (lines 90-110), given what its    *)
(* SELECT found: the new table, the new AUTOINCREMENT counter, and whether *)
(* the statement succeeded (an INSERT of a device_id already present       *)
(* raises IntegrityError and nothing is committed).                        *)
(***************************************************************************)
SaveWrite(devs, seqn, p, ts) ==
    IF p.existing
    THEN [devs |-> UpdateDevice(devs, p.dev, p.client_info, p.tok, p.expiry, ts),
          seqn |-> seqn, ok |-> TRUE]
    ELSE IF UniqueViolation(devs, p.dev)
    THEN [devs |-> devs, seqn |-> seqn, ok |-> FALSE]
    ELSE [devs |-> InsertDevice(devs, seqn + 1, p.dev, p.client_info, p.tok,
                                p.expiry, p.approved, ts),
          seqn |-> seqn + 1, ok |-> TRUE]

\* The read half (lines 84-88): token, expiry and the SELECT's answer.
SaveSelect(devs, device_id, client_info, approved, n, t) ==
    [active |-> TRUE, dev |-> device_id, client_info |-> client_info,
     approved |-> approved, tok |-> generate_session_token(n),
     expiry |-> TokenExpiry(t), t |-> t,
     existing |-> SelectDevice(devs, device_id) # {}, clean |-> TRUE]

\* A commit by another connection lands between a pending save's SELECT and its write.
Interfere(s) ==
    [x \in Sessions |->
        IF x # s /\ pending[x].active THEN [pending[x] EXCEPT !.clean = FALSE]
        ELSE pending[x]]

(***************************************************************************)
(* Operations of the device trust service, each called as a whole.         *)
(***************************************************************************)
InitAuthDatabase ==
    /\ auth_tables' = TRUE
    /\ last' = [NoLast EXCEPT !.op = "init_auth_database", !.t = now]
    /\ UNCHANGED <<now, uuid_count, authorized_devices, login_attempts, seq,
                   pending, issued>>
    /\ UNCHANGED appVars
    /\ UNCHANGED trackerVars

SaveDeviceSession(device_id, client_info, approved) ==
    /\ uuid_count < MaxUuids
    /\ \A s \in Sessions : ~pending[s].active
    /\ uuid_count' = uuid_count + 1
    /\ LET p == SaveSelect(authorized_devices, device_id, client_info, approved,
                           uuid_count + 1, now)
           w == SaveWrite(authorized_devices, seq.authorized_devices, p, now)
           base == [NoLast EXCEPT !.op = "save_device_session", !.dev = device_id,
                                  !.client_info = client_info,
                                  !.approved = approved, !.t = now]
       IN IF auth_tables /\ w.ok
          THEN /\ authorized_devices' = w.devs
               /\ seq' = [seq EXCEPT !.authorized_devices = w.seqn]
               /\ issued' = issued \cup {p.tok}
               /\ last' = [base EXCEPT !.tok = p.tok, !.existed = p.existing]
          ELSE /\ last' = [base EXCEPT !.ok = FALSE]
               /\ UNCHANGED <<authorized_devices, seq, issued>>
    /\ UNCHANGED <<now, auth_tables, login_attempts, pending>>
    /\ UNCHANGED appVars
    /\ UNCHANGED trackerVars

CheckDeviceApproval(device_id) ==
    /\ LET res == check_device_approval(authorized_devices, device_id, now)
           base == [NoLast EXCEPT !.op = "check_device_approval", !.dev = device_id,
                                  !.t = now]
       IN last' = IF auth_tables
                  THEN [base EXCEPT !.ret = res[1], !.tok = res[2]]
                  ELSE [base EXCEPT !.ok = FALSE]
    /\ UNCHANGED <<now, uuid_count, auth_tables, authorized_devices, login_attempts,
                   seq, pending, issued>>
    /\ UNCHANGED appVars
    /\ UNCHANGED trackerVars

LogLoginAttemptUpTo(bound, device_id, client_info, status) ==
    /\ seq.login_attempts < bound
    /\ LET base == [NoLast EXCEPT !.op = "log_login_attempt", !.dev = device_id,
                                  !.client_info = client_info, !.t = now]
       IN IF auth_tables
          THEN /\ login_attempts' = log_login_attempt(login_attempts,
                       seq.login_attempts + 1, device_id, client_info, status, now)
               /\ seq' = [seq EXCEPT !.login_attempts = @ + 1]
               /\ last' = base
          ELSE /\ last' = [base EXCEPT !.ok = FALSE]
               /\ UNCHANGED <<login_attempts, seq>>
    /\ UNCHANGED <<now, uuid_count, auth_tables, authorized_devices, pending, issued>>
    /\ UNCHANGED appVars
    /\ UNCHANGED trackerVars

LogLoginAttempt(device_id, client_info, status) ==
    LogLoginAttemptUpTo(MaxAttempts, device_id, client_info, status)

ApproveDevice(device_id) ==
    /\ LET base == [NoLast EXCEPT !.op = "approve_device", !.dev = device_id, !.t = now]
       IN IF auth_tables
          THEN /\ authorized_devices' = approve_device(authorized_devices, device_id)
               /\ last' = base
          ELSE /\ last' = [base EXCEPT !.ok = FALSE]
               /\ UNCHANGED authorized_devices
    /\ pending' = Interfere("")
    /\ UNCHANGED <<now, uuid_count, auth_tables, login_attempts, seq, issued>>
    /\ UNCHANGED appVars
    /\ UNCHANGED trackerVars

RevokeDevice(device_id) ==
    /\ LET base == [NoLast EXCEPT !.op = "revoke_device", !.dev = device_id, !.t = now]
       IN IF auth_tables
          THEN /\ authorized_devices' = revoke_device(authorized_devices, device_id)
               /\ last' = base
          ELSE /\ last' = [base EXCEPT !.ok = FALSE]
               /\ UNCHANGED authorized_devices
    /\ pending' = Interfere("")
    /\ UNCHANGED <<now, uuid_count, auth_tables, login_attempts, seq, issued>>
    /\ UNCHANGED appVars
    /\ UNCHANGED trackerVars

DeleteDevice(device_id) ==
    /\ LET base == [NoLast EXCEPT !.op = "delete_device", !.dev = device_id, !.t = now,
                        !.existed = RowsOf(authorized_devices, device_id) # {},
                        !.n = Cardinality({ a \in login_attempts :
                                                a.device_id = device_id })]
       IN IF auth_tables
          THEN /\ authorized_devices' = DeleteDeviceRows(authorized_devices, device_id)
               /\ login_attempts' = DeleteAttemptRows(login_attempts, device_id)
               /\ last' = base
          ELSE /\ last' = [base EXCEPT !.ok = FALSE]
               /\ UNCHANGED <<authorized_devices, login_attempts>>
    /\ pending' = Interfere("")
    /\ UNCHANGED <<now, uuid_count, auth_tables, seq, issued>>
    /\ UNCHANGED appVars
    /\ UNCHANGED trackerVars

\* Time passes: a day, or a whole trust window.
AdvanceClock(k) ==
    /\ now + k <= MaxNow
    /\ k = 1 => (now % TrustDays) < MaxDrift
    /\ now' = now + k
    /\ last' = [NoLast EXCEPT !.op = "clock", !.t = now + k]
    /\ UNCHANGED <<uuid_count, auth_tables, authorized_devices, login_attempts, seq,
                   pending, issued>>
    /\ UNCHANGED appVars
    /\ UNCHANGED trackerVars

InitDevice ==
    /\ now = 0
    /\ uuid_count = Cardinality(DeviceIds)
    /\ auth_tables = FALSE
    /\ authorized_devices = {}
    /\ login_attempts = {}
    /\ seq = [authorized_devices |-> 0, login_attempts |-> 0]
    /\ pending = [s \in Sessions |-> NoPending]
    /\ issued = {}
    /\ secrets = NoSecrets
    /\ session_state = [s \in Sessions |-> EmptyState]
    /\ view = [s \in Sessions |-> "none"]
    /\ failures = [s \in Sessions |-> 0]
    /\ trusted_at = [s \in Sessions |-> -1]
    /\ TrackerInit({"script_dir"})
    /\ history = <<>>
    /\ last = NoLast

NextDevice ==
    \/ InitAuthDatabase
    \/ \E d \in DeviceIds, ci \in ClientInfos, a \in BOOLEAN : SaveDeviceSession(d, ci, a)
    \/ \E d \in DeviceIds : CheckDeviceApproval(d)
    \/ \E d \in DeviceIds : ApproveDevice(d)
    \/ \E d \in DeviceIds : RevokeDevice(d)
    \/ \E d \in DeviceIds : DeleteDevice(d)
    \/ \E k \in {1, TrustDays} : AdvanceClock(k)

SpecDevice == InitDevice /\ [][NextDevice]_vars

\* Lines 380-381 and 420-421: what the panel shows for an empty DataFrame.
PanelInfo(df, empty_text) == IF Len(df) = 0 THEN empty_text ELSE ""

GetAllDevices ==
    /\ LET res == get_all_devices(auth_tables, authorized_devices, now)
       IN last' = [NoLast EXCEPT !.op = "get_all_devices", !.t = now, !.ok = res.ok,
                                 !.rows = res.rows,
                                 !.info = PanelInfo(res.rows, "No devices registered yet")]
    /\ UNCHANGED <<now, authVars, appVars, trackerVars>>

GetLoginHistory ==
    /\ LET res == get_login_history(auth_tables, authorized_devices, login_attempts,
                                    HistoryLimit)
       IN last' = [NoLast EXCEPT !.op = "get_login_history", !.t = now, !.ok = res.ok,
                                 !.rows = res.rows,
                                 !.info = PanelInfo(res.rows, "No login history yet")]
    /\ UNCHANGED <<now, authVars, appVars, trackerVars>>

(***************************************************************************)
(* The admin's view: devices register and log in, the admin lists them,    *)
(* reads the login history and deletes devices.                            *)
(***************************************************************************)
NextAdmin ==
    \/ InitAuthDatabase
    \/ \E d \in DeviceIds : SaveDeviceSession(d, NoClient, TRUE)
    \/ \E d \in DeviceIds : LogLoginAttemptUpTo(MaxLogged, d, NoClient, "Login Success")
    \/ \E d \in DeviceIds : DeleteDevice(d)
    \/ GetAllDevices
    \/ GetLoginHistory
    \/ AdvanceClock(1)

SpecAdmin == InitDevice /\ [][NextAdmin]_vars

(***************************************************************************)
(* The trust window: saves (as a successful login makes them: approved,    *)
(* followed sooner or later by the login's log entry), approvals and       *)
(* revocations as time passes, for one client descriptor.                  *)
(***************************************************************************)
NextExpiry ==
    \/ InitAuthDatabase
    \/ \E d \in DeviceIds : SaveDeviceSession(d, NoClient, TRUE)
    \/ \E d \in DeviceIds : LogLoginAttempt(d, NoClient, "Login Success")
    \/ \E d \in DeviceIds : ApproveDevice(d)
    \/ \E d \in DeviceIds : RevokeDevice(d)
    \/ \E k \in {1, TrustDays} : AdvanceClock(k)

SpecExpiry == InitDevice /\ [][NextExpiry]_vars

(***************************************************************************)
(* Two sessions whose save_device_session calls interleave: each call is   *)
(* its SELECT (SaveBegin) followed later by its write and commit           *)
(* (SaveCommit); approve, revoke and delete are single transactions.       *)
(***************************************************************************)
SaveBegin(s, device_id, client_info, approved) ==
    /\ uuid_count < MaxUuids
    /\ ~pending[s].active
    /\ uuid_count' = uuid_count + 1
    /\ IF auth_tables
       THEN /\ pending' = [pending EXCEPT ![s] =
                    SaveSelect(authorized_devices, device_id, client_info, approved,
                               uuid_count + 1, now)]
            /\ last' = [NoLast EXCEPT !.op = "save_select", !.dev = device_id,
                                      !.sess = s, !.t = now]
       ELSE /\ last' = [NoLast EXCEPT !.op = "save_device_session", !.dev = device_id,
                                      !.sess = s, !.t = now, !.ok = FALSE]
            /\ UNCHANGED pending
    /\ UNCHANGED <<now, auth_tables, authorized_devices, login_attempts, seq, issued>>
    /\ UNCHANGED appVars
    /\ UNCHANGED trackerVars

SaveCommit(s) ==
    /\ pending[s].active
    /\ LET p == pending[s]
           w == SaveWrite(authorized_devices, seq.authorized_devices, p, now)
           base == [NoLast EXCEPT !.op = "save_device_session", !.dev = p.dev,
                                  !.client_info = p.client_info, !.sess = s,
                                  !.approved = p.approved, !.t = p.t,
                                  !.existed = p.existing, !.clean = p.clean]
       IN IF w.ok
          THEN /\ authorized_devices' = w.devs
               /\ seq' = [seq EXCEPT !.authorized_devices = w.seqn]
               /\ issued' = issued \cup {p.tok}
               /\ last' = [base EXCEPT !.tok = p.tok]
               /\ pending' = [Interfere(s) EXCEPT ![s] = NoPending]
          ELSE /\ last' = [base EXCEPT !.ok = FALSE]
               /\ pending' = [pending EXCEPT ![s] = NoPending]
               /\ UNCHANGED <<authorized_devices, seq, issued>>
    /\ UNCHANGED <<now, uuid_count, auth_tables, login_attempts>>
    /\ UNCHANGED appVars
    /\ UNCHANGED trackerVars

NextConc ==
    \/ InitAuthDatabase
    \/ \E s \in Sessions, d \in DeviceIds, ci \in ClientInfos, a \in BOOLEAN :
           SaveBegin(s, d, ci, a)
    \/ \E s \in Sessions : SaveCommit(s)
    \/ \E d \in DeviceIds : ApproveDevice(d)
    \/ \E d \in DeviceIds : RevokeDevice(d)
    \/ \E d \in DeviceIds : DeleteDevice(d)

SpecConc == InitDevice /\ [][NextConc]_vars

(***************************************************************************)
(* st.session_state: a map from keys to values.                            *)
(***************************************************************************)
Get(ss, k, default) == IF k \in DOMAIN ss THEN ss[k] ELSE default

Set(ss, k, v) == [x \in (DOMAIN ss) \cup {k} |-> IF x = k THEN v ELSE ss[x]]

Del(ss, k) == [x \in (DOMAIN ss) \ {k} |-> ss[x]]

(***************************************************************************)
(* The password gate.  check_password is defined twice in the source; the  *)
(* second definition (lines 238-286) replaces the first (lines 146-234)    *)
(* and is the one the script calls at line 289.                            *)
(***************************************************************************)
Passwords == {"jee2025", "correct", "wrong", ""}

SecretsConfigs ==
    { NoSecrets,
      [configured |-> TRUE, hash |-> sha256("correct")],
      [configured |-> TRUE, hash |-> sha256("mislaid")] }

\* First definition, lines 175-184: the hash of the input against the configured
\* hash, or against the hash of the development password when none is configured.
password_accepted_tracked(entered_password, sec) ==
    LET hashed_input == sha256(entered_password)
        correct_hash == IF sec.configured THEN sec.hash ELSE sha256("jee2025")
    IN hashed_input = correct_hash

password_accepted_other_fallback(entered_password, sec) ==
    IF sec.configured
    THEN sha256(entered_password) = sec.hash
    ELSE entered_password = "jee2024"

\* Second definition, lines 245-261: the hash comparison inside the try, the
\* plaintext comparison in the except branch.
password_accepted(entered_password, sec) ==
    IF sec.configured
    THEN sha256(entered_password) = sec.hash
    ELSE entered_password = "jee2025"

\* Second definition, the on_change callback of the password field.
password_entered(ss, sec) ==
    IF password_accepted(ss["password"], sec)
    THEN Del(Set(ss, "password_correct", TRUE), "password")
    ELSE Set(ss, "password_correct", FALSE)

\* Second definition, lines 263-286: the gate itself.  Rendering the form registers
\* the password field's key.
check_password(ss) ==
    IF Get(ss, "password_correct", FALSE)
    THEN [ret |-> TRUE, ss |-> ss]
    ELSE [ret |-> FALSE, ss |-> Set(ss, "password", Get(ss, "password", ""))]

\* One execution of the script from the top (lines 289-290 and the page after it).
RunScript(ss) ==
    LET g == check_password(ss)
    IN [ret |-> g.ret, ss |-> g.ss, view |-> IF g.ret THEN "app" ELSE "login"]

ClearSession_flags_kept(ss) == Del(ss, "show_admin")

\* add_logout_button, lines 431-432: every key is deleted.
ClearSession(ss) == EmptyState

Authenticated(s) == check_password(session_state[s]).ret

Bump(n) == IF n < MaxFailures THEN n + 1 ELSE n

(***************************************************************************)
(* The application as it runs: one action per user interaction, each the   *)
(* callback (if any) followed by the script's re-execution.                *)
(***************************************************************************)
\* A browser opens the page, or reloads it: a new session with an empty state.
OpenSession(s) ==
    /\ LET r == RunScript(EmptyState)
       IN /\ session_state' = [session_state EXCEPT ![s] = r.ss]
          /\ view' = [view EXCEPT ![s] = r.view]
          /\ last' = [NoLast EXCEPT !.op = "open", !.sess = s, !.ret = r.ret, !.t = now]
          /\ PageInit(r.ret)
    /\ failures' = [failures EXCEPT ![s] = 0]
    /\ UNCHANGED <<now, authVars, secrets, trusted_at>>

\* The user submits a password: the field's on_change callback, then the rerun.
PasswordEntered(s, pw) ==
    /\ view[s] = "login"
    /\ pw # session_state[s]["password"]
    /\ LET typed == Set(session_state[s], "password", pw)
           r == RunScript(password_entered(typed, secrets))
       IN /\ session_state' = [session_state EXCEPT ![s] = r.ss]
          /\ view' = [view EXCEPT ![s] = r.view]
          /\ failures' = [failures EXCEPT ![s] = IF r.ret THEN @ ELSE Bump(@)]
          /\ trusted_at' = [trusted_at EXCEPT ![s] =
                 IF r.ret /\ Get(typed, "remember_device", TRUE) THEN now ELSE @]
          /\ last' = [NoLast EXCEPT !.op = "password_entered", !.sess = s, !.pw = pw,
                                    !.ret = r.ret, !.t = now]
          /\ PageInit(r.ret)
    /\ UNCHANGED <<now, authVars, secrets>>

\* The Logout button: the rerun reaches the button, clears the state and reruns.
Logout(s) ==
    /\ view[s] = "app"
    /\ RunScript(session_state[s]).ret
    /\ LET r == RunScript(ClearSession(session_state[s]))
       IN /\ session_state' = [session_state EXCEPT ![s] = r.ss]
          /\ view' = [view EXCEPT ![s] = r.view]
          /\ last' = [NoLast EXCEPT !.op = "logout", !.sess = s, !.ret = r.ret, !.t = now]
    /\ PageInit(TRUE)
    /\ failures' = [failures EXCEPT ![s] = 0]
    /\ UNCHANGED <<now, authVars, secrets, trusted_at>>

\* The Admin Panel button (lines 366-367).
ToggleAdmin(s) ==
    /\ view[s] = "app"
    /\ LET r == RunScript(session_state[s])
           ss == IF r.ret
                 THEN Set(r.ss, "show_admin", ~Get(r.ss, "show_admin", FALSE))
                 ELSE r.ss
       IN /\ session_state' = [session_state EXCEPT ![s] = ss]
          /\ view' = [view EXCEPT ![s] = r.view]
          /\ last' = [NoLast EXCEPT !.op = "toggle_admin", !.sess = s, !.ret = r.ret,
                                    !.t = now]
          /\ PageInit(r.ret)
    /\ UNCHANGED <<now, authVars, secrets, failures, trusted_at>>

\* Any other interaction with the page: the script runs again.
Interact(s) ==
    /\ view[s] = "app"
    /\ LET r == RunScript(session_state[s])
       IN /\ session_state' = [session_state EXCEPT ![s] = r.ss]
          /\ view' = [view EXCEPT ![s] = r.view]
          /\ last' = [NoLast EXCEPT !.op = "interact", !.sess = s, !.ret = r.ret,
                                    !.t = now]
          /\ PageInit(r.ret)
    /\ UNCHANGED <<now, authVars, secrets, failures, trusted_at>>

Init ==
    /\ now = 0
    /\ uuid_count = 0
    /\ auth_tables = FALSE
    /\ authorized_devices = {}
    /\ login_attempts = {}
    /\ seq = [authorized_devices |-> 0, login_attempts |-> 0]
    /\ pending = [s \in Sessions |-> NoPending]
    /\ issued = {}
    /\ secrets \in SecretsConfigs
    /\ session_state = [s \in Sessions |-> EmptyState]
    /\ view = [s \in Sessions |-> "none"]
    /\ failures = [s \in Sessions |-> 0]
    /\ trusted_at = [s \in Sessions |-> -1]
    /\ TrackerInit({"script_dir"})
    /\ history = <<>>
    /\ last = NoLast

Next ==
    \/ \E s \in Sessions : OpenSession(s)
    \/ \E s \in Sessions, pw \in Passwords : PasswordEntered(s, pw)
    \/ \E s \in Sessions : Logout(s)
    \/ \E s \in Sessions : ToggleAdmin(s)
    \/ \E s \in Sessions : Interact(s)
    \/ \E k \in {1, TrustDays} : AdvanceClock(k)

Spec == Init /\ [][Next]_vars

(***************************************************************************)
(* Every kind of operation next to the login log: devices register, log    *)
(* in, are approved, revoked and deleted while a session logs in and out   *)
(* and works on its tasks and its syllabus.                                *)
(***************************************************************************)
NextAppend ==
    \/ InitAuthDatabase
    \/ SaveDeviceSession(uuid4(1), NoClient, TRUE)
    \/ \E d \in DeviceIds : LogLoginAttemptUpTo(MaxLogged, d, NoClient, "Login Success")
    \/ ApproveDevice(uuid4(1))
    \/ RevokeDevice(uuid4(1))
    \/ DeleteDevice(uuid4(1))
    \/ OpenSession("s1")
    \/ PasswordEntered("s1", "jee2025")
    \/ Logout("s1")
    \/ \E n \in TaskNames : AddDailyTask(n, isoformat(1))
    \/ UpdateTaskStatus(1, TRUE)
    \/ UpdateSyllabusStatus(Len(syllabus_data), "Completed")

SpecAppend == InitDevice /\ [][NextAppend]_vars

(***************************************************************************)
(* The first definition of check_password (lines 146-234), "with device    *)
(* tracking".  The script never calls it: the second definition replaces   *)
(* it.  SpecTracked is the application as it would run with the first      *)
(* definition as the gate.                                                 *)
(***************************************************************************)
\* get_device_fingerprint, lines 56-59: the identifier lives in the session state.
get_device_fingerprint(ss, n) ==
    IF "device_id" \in DOMAIN ss THEN ss ELSE Set(ss, "device_id", uuid4(n + 1))

\* Lines 150-234 on the tables db = [tables, devs, attempts, seqs, uuids]:
\* the gate's answer, the session state and the tables after it.
check_password_tracked(ss, db, client_info, t) ==
    LET ss1 == get_device_fingerprint(ss, db.uuids)
        db1 == [db EXCEPT !.tables = TRUE,
                          !.uuids = IF "device_id" \in DOMAIN ss THEN @ ELSE @ + 1]
        device_id == ss1["device_id"]
        res == check_device_approval(db1.devs, device_id, t)
    IN IF Get(ss1, "authenticated", FALSE)
       THEN [ret |-> TRUE, ss |-> ss1, db |-> db1, auto |-> FALSE]
       ELSE IF res[1] /\ res[2] # None
       THEN [ret |-> TRUE,
             ss |-> Set(Set(ss1, "authenticated", TRUE), "session_token", res[2]),
             db |-> [db1 EXCEPT
                       !.attempts = log_login_attempt(@, db1.seqs.login_attempts + 1,
                                        device_id, client_info, "Auto-login Success", t),
                       !.seqs = [@ EXCEPT !.login_attempts = @ + 1]],
             auto |-> TRUE]
       ELSE IF Get(ss1, "password_correct", FALSE)
       THEN [ret |-> TRUE, ss |-> ss1, db |-> db1, auto |-> FALSE]
       ELSE [ret |-> FALSE,
             ss |-> Set(Set(ss1, "password", Get(ss1, "password", "")),
                        "remember_device", Get(ss1, "remember_device", TRUE)),
             db |-> db1, auto |-> FALSE]

\* Lines 172-198: the on_change callback of the first definition.
password_entered_tracked(ss, db, sec, client_info, t) ==
    LET device_id == ss["device_id"]
        remember == Get(ss, "remember_device", TRUE)
        p == SaveSelect(db.devs, device_id, client_info, TRUE, db.uuids + 1, t)
        w == SaveWrite(db.devs, db.seqs.authorized_devices, p, t)
        saved == [db EXCEPT !.devs = w.devs,
                            !.seqs = [@ EXCEPT !.authorized_devices = w.seqn],
                            !.uuids = @ + 1]
        db1 == IF remember THEN saved ELSE db
        status == IF password_accepted_tracked(ss["password"], sec)
                  THEN "Login Success" ELSE "Login Failed - Wrong Password"
        logged(d) == [d EXCEPT
                        !.attempts = log_login_attempt(@, d.seqs.login_attempts + 1,
                                         device_id, client_info, status, t),
                        !.seqs = [@ EXCEPT !.login_attempts = @ + 1]]
    IN IF password_accepted_tracked(ss["password"], sec)
       THEN [ss |-> Del(Set(Set(IF remember THEN Set(ss, "session_token", p.tok) ELSE ss,
                                "password_correct", TRUE),
                            "authenticated", TRUE),
                        "password"),
             db |-> logged(db1),
             tok |-> IF remember THEN {p.tok} ELSE {}]
       ELSE [ss |-> Set(ss, "password_correct", FALSE), db |-> logged(db), tok |-> {}]

Db == [tables |-> auth_tables, devs |-> authorized_devices, attempts |-> login_attempts,
       seqs |-> seq, uuids |-> uuid_count]

StoreDb(db) ==
    /\ auth_tables' = db.tables
    /\ authorized_devices' = db.devs
    /\ login_attempts' = db.attempts
    /\ seq' = db.seqs
    /\ uuid_count' = db.uuids

AuthenticatedTracked(s) ==
    \/ Get(session_state[s], "authenticated", FALSE)
    \/ Get(session_state[s], "password_correct", FALSE)

TrackedRun(s, ss, db, client_info, op, pw, issue) ==
    LET g == check_password_tracked(ss, db, client_info, now)
    IN /\ g.db.uuids <= MaxUuids
       /\ g.db.seqs.login_attempts <= MaxTrackedAttempts
       /\ StoreDb(g.db)
       /\ session_state' = [session_state EXCEPT ![s] = g.ss]
       /\ view' = [view EXCEPT ![s] = IF g.ret THEN "app" ELSE "login"]
       /\ issued' = issued \cup issue
       /\ last' = [NoLast EXCEPT !.op = op, !.sess = s, !.ret = g.ret, !.pw = pw,
                                 !.client_info = client_info, !.t = now,
                                 !.existed = g.auto]
       /\ PageInit(g.ret)
       /\ UNCHANGED <<now, secrets, pending>>

TrackedOpen(s, client_info) ==
    /\ TrackedRun(s, EmptyState, Db, client_info, "open", "", {})
    /\ failures' = [failures EXCEPT ![s] = 0]
    /\ UNCHANGED trusted_at

TrackedPasswordEntered(s, client_info, pw) ==
    /\ view[s] = "login"
    /\ pw # session_state[s]["password"]
    /\ LET typed == Set(session_state[s], "password", pw)
           c == password_entered_tracked(typed, Db, secrets, client_info, now)
           ok == password_accepted_tracked(pw, secrets)
       IN /\ TrackedRun(s, c.ss, c.db, client_info, "password_entered", pw, c.tok)
          /\ failures' = [failures EXCEPT ![s] = IF ok THEN @ ELSE Bump(@)]
          /\ trusted_at' = [trusted_at EXCEPT ![s] =
                 IF ok /\ Get(typed, "remember_device", TRUE) THEN now ELSE @]

\* The 'Trust this device' checkbox (lines 225-227) is ticked or unticked.
TrackedToggleRemember(s, client_info) ==
    /\ view[s] = "login"
    /\ TrackedRun(s, Set(session_state[s], "remember_device",
                         ~session_state[s]["remember_device"]),
                  Db, client_info, "toggle_remember", "", {})
    /\ UNCHANGED <<failures, trusted_at>>

TrackedLogout(s, client_info) ==
    /\ view[s] = "app"
    /\ TrackedRun(s, ClearSession(session_state[s]), Db, client_info, "logout", "", {})
    /\ failures' = [failures EXCEPT ![s] = 0]
    /\ UNCHANGED trusted_at

\* The admin panel's buttons (lines 399-413), shown for the rows get_all_devices returns.
TrackedAdmin(s, r, button) ==
    /\ view[s] = "app"
    /\ r \in authorized_devices
    /\ \/ /\ button = "revoke" /\ r.is_approved # 0
          /\ authorized_devices' = revoke_device(authorized_devices, r.device_id)
          /\ UNCHANGED login_attempts
       \/ /\ button = "approve" /\ r.is_approved = 0
          /\ authorized_devices' = approve_device(authorized_devices, r.device_id)
          /\ UNCHANGED login_attempts
       \/ /\ button = "delete"
          /\ authorized_devices' = DeleteDeviceRows(authorized_devices, r.device_id)
          /\ login_attempts' = DeleteAttemptRows(login_attempts, r.device_id)
    /\ last' = [NoLast EXCEPT !.op = button, !.sess = s, !.dev = r.device_id,
                              !.ret = TRUE, !.t = now]
    /\ UNCHANGED <<now, uuid_count, auth_tables, seq, pending, issued, appVars>>
    /\ UNCHANGED trackerVars

\* The client descriptor each browser sends.
ClientOf(s) ==
    IF s = "s1" THEN NoClient
    ELSE get_client_info([ok |-> TRUE, xff |-> IpProxy, remote |-> IpDirect,
                          agent |-> "Mozilla"])

NextTracked ==
    \/ \E s \in Sessions : TrackedOpen(s, ClientOf(s))
    \/ \E s \in Sessions, pw \in Passwords : TrackedPasswordEntered(s, ClientOf(s), pw)
    \/ \E s \in Sessions : TrackedToggleRemember(s, ClientOf(s))
    \/ \E s \in Sessions : TrackedLogout(s, ClientOf(s))
    \/ \E s \in Sessions, r \in authorized_devices,
          b \in {"approve", "revoke", "delete"} : TrackedAdmin(s, r, b)
    \/ \E k \in {1, TrustDays} : AdvanceClock(k)

InitTracked == Init /\ secrets = NoSecrets

SpecTracked == InitTracked /\ [][NextTracked]_vars

\* With the first definition as the gate no run ever takes the auto-login branch:
\* the device identifier is kept only in the session state, so a session that is
\* not authenticated never holds the identifier of a stored record.
TrackedNoAutoLogin ==
    /\ ~(last.op \in {"open", "logout", "toggle_remember", "password_entered"}
           /\ last.existed)
    /\ \A s \in Sessions :
           ("device_id" \in DOMAIN session_state[s] /\ ~AuthenticatedTracked(s))
               => RowsOf(authorized_devices, session_state[s]["device_id"]) = {}

(***************************************************************************)
(* Properties of the device trust service.                                 *)
(***************************************************************************)
\* The instant a stored token_expiry text denotes.
ExpiryTime(r) == CHOOSE t \in 0..(MaxNow + TrustDays + 1) : isoformat(t) = r.token_expiry

\* C1: under any interleaving of save_device_session, approve_device, revoke_device
\* and delete_device, authorized_devices holds at most one record per device
\* identifier; a save that ran without another commit in between leaves exactly one
\* record for its device identifier.
C1_OneRecordPerDevice ==
    /\ \A r1, r2 \in authorized_devices : r1.device_id = r2.device_id => r1 = r2
    /\ (last.op = "save_device_session" /\ last.ok /\ last.clean)
           => Cardinality(RowsOf(authorized_devices, last.dev)) = 1

C1_Witness ==
    /\ last.op = "save_device_session" /\ last.ok /\ last.clean /\ last.existed
    /\ Cardinality(RowsOf(authorized_devices, last.dev)) = 1

\* A second session's INSERT for the same identifier, its SELECT made before the
\* first session's commit, is refused by the UNIQUE constraint.
C1_RefusedInsert ==
    /\ last.op = "save_device_session" /\ auth_tables /\ ~last.ok /\ ~last.clean
    /\ Cardinality(RowsOf(authorized_devices, last.dev)) = 1

\* C2: check_device_approval returns (False, None) when no record exists for the
\* device or the stored token_expiry is at or before now, whatever is_approved is;
\* it returns approved = True only for a record whose expiry is after now and whose
\* is_approved is set.
C2_CheckDeviceApproval ==
    (last.op = "check_device_approval" /\ last.ok) =>
        LET rows == RowsOf(authorized_devices, last.dev)
            live == { r \in rows : ExpiryTime(r) > now }
        IN /\ live = {} => (last.ret = FALSE /\ last.tok = None)
           /\ last.ret = TRUE => \E r \in live : r.is_approved = 1

C2_Witness ==
    /\ last.op = "check_device_approval" /\ last.ok /\ last.ret = FALSE
    /\ \E r \in RowsOf(authorized_devices, last.dev) :
           r.is_approved = 1 /\ ExpiryTime(r) = now

\* C7: save_device_session on a device that has a record leaves the record's
\* is_approved, device_name, first_login (and id) as they were and sets last_login,
\* session_token, token_expiry, ip_address and user_agent; on a device without a
\* record it inserts one whose is_approved is the 'approved' argument.  Records of
\* other devices are not changed.
C7_SaveFrame ==
    [][ (last'.op = "save_device_session" /\ last'.ok) =>
          LET d == last'.dev
              old == RowsOf(authorized_devices, d)
              new == RowsOf(authorized_devices', d)
          IN /\ Cardinality(new) = 1
             /\ \A n \in new :
                  /\ n.last_login = now
                  /\ n.session_token = last'.tok
                  /\ n.ip_address = last'.client_info.ip_address
                  /\ n.user_agent = last'.client_info.user_agent
                  /\ \A o \in old :
                       /\ n.is_approved = o.is_approved
                       /\ n.device_name = o.device_name
                       /\ n.first_login = o.first_login
                       /\ n.id = o.id
                  /\ old = {} => n.is_approved = (IF last'.approved THEN 1 ELSE 0)
             /\ authorized_devices' \ new = authorized_devices \ old
      ]_vars

C7_Witness ==
    /\ last.op = "save_device_session" /\ last.ok /\ last.existed
    /\ \E r \in RowsOf(authorized_devices, last.dev) :
           /\ r.is_approved # (IF last.approved THEN 1 ELSE 0)
           /\ r.device_name # DeviceName(last.client_info)
           /\ r.ip_address = last.client_info.ip_address
           /\ r.first_login < r.last_login

\* C8: a save_device_session call made at time t stores token_expiry = t + 30 days,
\* on the insert and on the update branch; approve_device, revoke_device and
\* log_login_attempt change no stored token_expiry.
C8_ExpiryThirtyDays ==
    [][ /\ (last'.op = "save_device_session" /\ last'.ok) =>
              /\ RowsOf(authorized_devices', last'.dev) # {}
              /\ \A n \in RowsOf(authorized_devices', last'.dev) :
                     ExpiryTime(n) = last'.t + 30
        /\ last'.op \in {"approve_device", "revoke_device", "log_login_attempt", "clock",
                         "init_auth_database"} =>
              /\ { r.id : r \in authorized_devices' } = { r.id : r \in authorized_devices }
              /\ \A r \in authorized_devices, n \in authorized_devices' :
                     n.id = r.id => n.token_expiry = r.token_expiry
      ]_vars

C8_Witness ==
    /\ last.op = "save_device_session" /\ last.ok /\ last.existed /\ last.t > 0
    /\ login_attempts # {}
    /\ \E r \in RowsOf(authorized_devices, last.dev) :
           ExpiryTime(r) = now + 30 /\ r.first_login < now

\* C9: the token a save_device_session call returns is the session_token stored in
\* the device's record after the call, and it differs from every token stored before
\* the call and from every token issued earlier, so no earlier token matches the
\* stored one.
C9_FreshToken ==
    [][ (last'.op = "save_device_session" /\ last'.ok) =>
          /\ \A n \in RowsOf(authorized_devices', last'.dev) :
                 /\ n.session_token = last'.tok
                 /\ n.session_token \notin issued
          /\ RowsOf(authorized_devices', last'.dev) # {}
          /\ last'.tok \notin issued
          /\ \A r \in authorized_devices : r.session_token # last'.tok
          /\ issued' = issued \cup {last'.tok}
      ]_vars

C9_Witness ==
    /\ last.op = "save_device_session" /\ last.ok /\ last.existed
    /\ Cardinality(issued) >= 2
    /\ \E r \in RowsOf(authorized_devices, last.dev) :
           r.session_token = last.tok /\ (issued \ {last.tok}) # {}

(***************************************************************************)
(* Properties of the password gate.                                        *)
(***************************************************************************)
\* The candidate the configuration makes correct: the one whose SHA-256 is the
\* configured hash, or 'jee2025' when no hash is configured.
Correct(pw) == IF secrets.configured THEN sha256(pw) = secrets.hash ELSE pw = "jee2025"

NewAttempts == login_attempts' \ login_attempts

\* C3: every authentication attempt the gate handles appends exactly one
\* login_attempts row: 'Login Success' for a correct password, 'Login Failed - Wrong
\* Password' for an incorrect one, 'Auto-login Success' for a gate check that admits
\* an unauthenticated session without a password.
C3_EveryAttemptLogged ==
    [][ /\ last'.op = "password_entered" =>
              /\ Cardinality(NewAttempts) = 1
              /\ login_attempts \subseteq login_attempts'
              /\ \A r \in NewAttempts :
                     r.status = IF last'.ret THEN "Login Success"
                                ELSE "Login Failed - Wrong Password"
        /\ (last'.op \in {"open", "logout"} /\ last'.ret) =>
              /\ Cardinality(NewAttempts) = 1
              /\ login_attempts \subseteq login_attempts'
              /\ \A r \in NewAttempts : r.status = "Auto-login Success"
      ]_vars

\* C4: a submitted candidate is accepted exactly when its SHA-256 equals the
\* configured hash, or, with no hash configured, exactly when it is 'jee2025'; the
\* two definitions of the gate accept the same candidates.
C4_PasswordVerification ==
    /\ last.op = "password_entered" => (last.ret <=> Correct(last.pw))
    /\ \A pw \in Passwords :
           password_accepted_tracked(pw, secrets) <=> password_accepted(pw, secrets)

C4_Witness ==
    /\ last.op = "password_entered" /\ last.ret
    /\ ~secrets.configured /\ last.pw = "jee2025"
    /\ \E pw \in Passwords : ~password_accepted(pw, secrets)

\* C5: an incorrect password leaves the session unauthenticated and a correct one
\* authenticates it, however many incorrect ones came before; an authenticated
\* session stays authenticated through every interaction other than logout (or the
\* browser starting a new session); logout deletes every session-state key, so the
\* gate check that follows finds the session unauthenticated and shows the form.
C5_GateStateMachine ==
    [][ \A s \in Sessions :
          /\ (last'.op = "password_entered" /\ last'.sess = s) =>
                 (Authenticated(s)' <=> Correct(last'.pw))
          /\ (Authenticated(s) /\ ~(last'.sess = s /\ last'.op \in {"logout", "open"})) =>
                 Authenticated(s)'
          /\ (last'.op = "logout" /\ last'.sess = s) =>
                 /\ Authenticated(s)
                 /\ ~Authenticated(s)'
                 /\ ~last'.ret
                 /\ view'[s] = "login"
                 /\ DOMAIN session_state'[s] \subseteq {"password"}
      ]_vars

C5_Witness ==
    /\ last.op = "password_entered" /\ last.ret
    /\ failures[last.sess] >= 2
    /\ Authenticated(last.sess)
    /\ \E s \in Sessions : s # last.sess /\ view[s] = "login" /\ trusted_at[s] >= 0

\* C6: after a correct password with 'trust this device' opted in, a gate check for
\* the same client in a session that is not authenticated (after logout, or a new
\* browser session), made less than 30 days later, authenticates the session without
\* a password.
C6_TrustedReentry ==
    \A s \in Sessions :
        (/\ last.sess = s
         /\ last.op \in {"logout", "open"}
         /\ trusted_at[s] >= 0
         /\ now < trusted_at[s] + 30)
        => (last.ret /\ Authenticated(s))

\* C10: a correct password marks the session authenticated; the login writes a
\* device trust record (approved) for the session's device when remember_device is
\* true or left at its default, and leaves authorized_devices unchanged when it is
\* false.
C10_TrustRecordIffOptIn ==
    [][ \A s \in Sessions :
          (last'.op = "password_entered" /\ last'.sess = s /\ last'.ret) =>
              /\ Authenticated(s)'
              /\ IF Get(session_state[s], "remember_device", TRUE)
                 THEN /\ "device_id" \in DOMAIN session_state'[s]
                      /\ \E r \in authorized_devices' :
                             /\ r.device_id = session_state'[s]["device_id"]
                             /\ r.is_approved = 1
                 ELSE authorized_devices' = authorized_devices
      ]_vars

(***************************************************************************)
(* Properties of the admin panel's operations.                             *)
(***************************************************************************)
\* The rows of a query result.
Range(s) == { s[i] : i \in 1..Len(s) }

\* C11: after delete_device(d) no authorized_devices record with identifier d exists
\* and get_login_history returns no row for d that carries a device name (none that
\* belongs to an existing device); the records and the login attempts of every other
\* device are as they were.
C11_DeleteCascades ==
    [][ (last'.op = "delete_device" /\ last'.ok) =>
          LET d == last'.dev
              shown == get_login_history(auth_tables', authorized_devices',
                                         login_attempts', HistoryLimit).rows
          IN /\ RowsOf(authorized_devices', d) = {}
             /\ \A row \in Range(shown) : ~(row.device_id = d /\ row.device_name # None)
             /\ { r \in authorized_devices' : r.device_id # d }
                    = { r \in authorized_devices : r.device_id # d }
             /\ { a \in login_attempts' : a.device_id # d }
                    = { a \in login_attempts : a.device_id # d }
      ]_vars

C11_Witness ==
    /\ last.op = "delete_device" /\ last.ok /\ last.existed /\ last.n >= 1
    /\ RowsOf(authorized_devices, last.dev) = {}
    /\ \E r \in authorized_devices : r.device_id # last.dev
    /\ \E a \in login_attempts : a.device_id # last.dev

C20_AttemptsAppendOnly ==
    [][ /\ (last'.op = "log_login_attempt" /\ last'.ok) =>
              /\ login_attempts \subseteq login_attempts'
              /\ Cardinality(login_attempts' \ login_attempts) = 1
              /\ \A a \in login_attempts' \ login_attempts :
                     /\ a.device_id = last'.dev
                     /\ a.timestamp = now
                     /\ \A b \in login_attempts : b.id # a.id
        /\ last'.op = "delete_device" =>
              /\ login_attempts' \subseteq login_attempts
              /\ \A a \in login_attempts \ login_attempts' : a.device_id = last'.dev
        /\ ~(last'.op = "log_login_attempt" /\ last'.ok) /\ last'.op # "delete_device" =>
              login_attempts' = login_attempts
      ]_vars

C20_Witness ==
    /\ last.op = "logout"
    /\ Cardinality(login_attempts) = 1
    /\ seq.login_attempts = 2
    /\ \E r \in authorized_devices : r.is_approved = 0
    /\ \E r \in daily_tasks : r.is_completed = 1
    /\ \E r \in syllabus_tracker : r.status = "Completed"

(***************************************************************************)
(* Properties of the daily tasks and the efficiency report.                *)
(***************************************************************************)
\* The rows of a report describe the table: exactly one row per date that has at
\* least one task, in descending date order, each with total = the number of tasks
\* of that date, completed = the number of them marked done and percent =
\* completed / total * 100 rounded to one decimal.
ReportDescribes(rows, tasks) ==
    LET dates == { r.date : r \in tasks }
    IN /\ { rows[i].date : i \in 1..Len(rows) } = dates
       /\ Len(rows) = Cardinality(dates)
       /\ \A i, j \in 1..Len(rows) :
              i < j => fromisoformat(rows[i].date) > fromisoformat(rows[j].date)
       /\ \A i \in 1..Len(rows) :
              LET on == { r \in tasks : r.date = rows[i].date }
                  n == Cardinality(on)
                  c == Cardinality({ r \in on : r.is_completed = 1 })
                  p == rows[i].efficiency_percent
              IN /\ n >= 1
                 /\ rows[i].total_tasks = n
                 /\ rows[i].completed_tasks = c
                 /\ 2 * n * p - n <= 2000 * c
                 /\ 2000 * c < 2 * n * p + n

\* C12: in every state in which the tables exist, get_efficiency_history returns
\* exactly one row per date that has at least one task and none for a date without
\* tasks (a date whose tasks were all deleted included), the rows in descending date
\* order, each with total = the number of tasks of that date, completed = the number
\* of them marked done and percent = completed / total * 100 rounded to one decimal.
C12_EfficiencyHistory ==
    (last.op = "get_efficiency_history" /\ tracker_tables)
        => last.ok /\ ReportDescribes(last.rows, daily_tasks)

\* A history given by its percentages, most recent first.
HistoryOf(percents) == [i \in 1..Len(percents) |-> [efficiency_percent |-> percents[i]]]

Described(rows) == { [id |-> r.id, task_name |-> r.task_name, date |-> r.date] : r \in rows }

\* C15: update_task_status and delete_task on an existing store raise no error,
\* change nothing when no task has the id, and change nothing when applied a second
\* time in succession with the same arguments; update_task_status changes at most the
\* completion flag of the task with that id (no id, description or date changes), and
\* delete_task removes at most the task with that id.
C15_TaskOpsIdempotent ==
    [][ /\ (last'.op = "update_task_status" /\ tracker_tables) =>
              /\ last'.ok
              /\ { r \in daily_tasks' : r.id # last'.id }
                     = { r \in daily_tasks : r.id # last'.id }
              /\ Described(daily_tasks') = Described(daily_tasks)
              /\ Cardinality(daily_tasks') = Cardinality(daily_tasks)
              /\ \A r \in daily_tasks' :
                     r.id = last'.id => r.is_completed = (IF last'.done THEN 1 ELSE 0)
              /\ last'.reps >= 2 => daily_tasks' = daily_tasks
              /\ (\A r \in daily_tasks : r.id # last'.id) => daily_tasks' = daily_tasks
        /\ (last'.op = "delete_task" /\ tracker_tables) =>
              /\ last'.ok
              /\ daily_tasks' \subseteq daily_tasks
              /\ \A r \in daily_tasks \ daily_tasks' : r.id = last'.id
              /\ \A r \in daily_tasks' : r.id # last'.id
              /\ last'.reps >= 2 => daily_tasks' = daily_tasks
              /\ (\A r \in daily_tasks : r.id # last'.id) => daily_tasks' = daily_tasks
      ]_vars

C15_Witness ==
    /\ last.op = "update_task_status" /\ last.ok /\ last.reps = 2 /\ last.done
    /\ \E r \in daily_tasks : r.id = last.id /\ r.is_completed = 1
    /\ \E r \in daily_tasks : r.id # last.id /\ r.is_completed = 0
    /\ Cardinality(daily_tasks) < Len(added)

\* Where in the order of addition the task with this id was added.
AddedAt(id) == CHOOSE k \in 1..Len(added) : added[k].id = id

\* C16: get_daily_tasks(date) returns exactly the tasks stored under that date, each
\* once, in increasing id order, which is the order in which they were added; no id
\* is given to two tasks, also after deletions.
C16_DailyTasksInInsertionOrder ==
    /\ \A j, k \in 1..Len(added) : added[j].id = added[k].id => j = k
    /\ (last.op = "get_daily_tasks" /\ last.ok) =>
           LET rows == last.rows
           IN /\ Range(rows) = { r \in daily_tasks : r.date = last.date }
              /\ Len(rows) = Cardinality(Range(rows))
              /\ \A i, j \in 1..Len(rows) :
                     i < j => /\ rows[i].id < rows[j].id
                              /\ AddedAt(rows[i].id) < AddedAt(rows[j].id)

C16_Witness ==
    /\ last.op = "get_daily_tasks" /\ last.ok
    /\ Len(last.rows) = 2
    /\ Cardinality(daily_tasks) < Len(added)
    /\ last.rows[2].id = Len(added)
    /\ last.rows[1].is_completed = 1

(***************************************************************************)
(* Properties of the syllabus.                                             *)
(***************************************************************************)
\* The table holds the catalog once: entry i under id i, nothing else.
OneCatalog(rows) ==
    /\ Cardinality(rows) = 35
    /\ Len(syllabus_data) = 35
    /\ \A i \in 1..Len(syllabus_data) :
           Cardinality({ r \in rows : /\ r.id = i
                                      /\ r.phase = syllabus_data[i][1]
                                      /\ r.subject = syllabus_data[i][2]
                                      /\ r.chapter = syllabus_data[i][3] }) = 1

\* C14: after any sequence of init_database and update_syllabus_status calls made one
\* after another, syllabus_tracker holds exactly one copy of the 35-row catalog; an
\* init_database call on a seeded table inserts no row and resets no status.
C14_SeedingIdempotent ==
    [][ /\ tracker_tables' => OneCatalog(syllabus_tracker')
        /\ (last'.op = "init_database" /\ tracker_tables) =>
               syllabus_tracker' = syllabus_tracker
      ]_vars

C14_Witness ==
    /\ last.op = "init_database" /\ last.reps = 2
    /\ OneCatalog(syllabus_tracker)
    /\ \E r \in syllabus_tracker : r.status = "Completed"

\* C17: with the seeded catalog calculate_projected_score returns none of the four
\* upper tiers: whatever statuses the items have it returns 'Projected: 20-50 Marks'
\* ('Start your journey!' when the statistics have no items), because no row's phase
\* is 'A', 'B', 'C' or 'D'.
C17_UpperTiersDead ==
    (last.op = "calculate_projected_score" /\ last.ok) =>
        /\ \A r \in syllabus_tracker : r.phase \notin {"A", "B", "C", "D"}
        /\ last.stats = get_completion_stats(Tdb)
        /\ last.score = IF \A g \in last.stats : g.total = 0
                        THEN "Start your journey!"
                        ELSE "Projected: 20-50 Marks"

C17_Witness ==
    /\ last.op = "calculate_projected_score" /\ last.ok
    /\ last.score = "Projected: 20-50 Marks"
    /\ \E g \in last.stats :
           g.phase = "Phase 4 (Days 111-120)" /\ g.total = 2 /\ g.completed = 2

C21_StatusInOptions ==
    /\ [](\A r \in syllabus_tracker : r.status \in StatusOptions)
    /\ [][(~tracker_tables /\ tracker_tables')
            => /\ Cardinality(syllabus_tracker') = Len(syllabus_data)
               /\ \A r \in syllabus_tracker' : r.status = "Not Started"]_vars
    /\ [][(last'.op = "status_selected" /\ last'.ok)
            => /\ last'.status \in StatusOptions
               /\ \E r \in syllabus_tracker' :
                      r.id = last'.id /\ r.status = last'.status]_vars

\* The selectbox of one item has been set to 'Completed' while another item
\* stands at 'In Progress'.
C21_Witness ==
    /\ last.op = "status_selected" /\ last.ok /\ last.status = "Completed"
    /\ \E r \in syllabus_tracker : r.id = last.id /\ r.status = "Completed"
    /\ \E r \in syllabus_tracker : r.id # last.id /\ r.status = "In Progress"
    /\ \E r \in syllabus_tracker : r.status = "Not Started"

(***************************************************************************)
(* C22.  Every daily task's completion flag is 0 or 1, so every row of the *)
(* efficiency report has total >= 1, 0 <= completed <= total and           *)
(* 0 <= percent <= 100; the report taken right after a date's first task   *)
(* is added shows that date at 0 percent.                                  *)
(***************************************************************************)
C22_FlagsAndPercents ==
    /\ [](\A r \in daily_tasks : r.is_completed \in {0, 1})
    /\ []((last.op = "get_efficiency_history" /\ last.ok)
           => \A i \in 1..Len(last.rows) :
                  /\ last.rows[i].total_tasks >= 1
                  /\ 0 <= last.rows[i].completed_tasks
                  /\ last.rows[i].completed_tasks <= last.rows[i].total_tasks
                  /\ 0 <= last.rows[i].efficiency_percent
                  /\ last.rows[i].efficiency_percent <= 1000)
    /\ [][(/\ last.op = "add_daily_task" /\ last.ok
           /\ \A r \in daily_tasks : r.date = last.date => r.id = last.id
           /\ last'.op = "get_efficiency_history" /\ last'.ok)
            => \E i \in 1..Len(last'.rows) :
                   /\ last'.rows[i].date = last.date
                   /\ last'.rows[i].total_tasks = 1
                   /\ last'.rows[i].efficiency_percent = 0]_vars

\* A report with one date at 100 percent and the other, whose only task is the
\* task added last, at 0 percent.
C22_Witness ==
    /\ last.op = "get_efficiency_history" /\ last.ok
    /\ Len(added) >= 2
    /\ \E i, j \in 1..Len(last.rows) :
           /\ last.rows[i].efficiency_percent = 1000
           /\ last.rows[j].efficiency_percent = 0
           /\ last.rows[j].total_tasks = 1
           /\ last.rows[j].date = added[Len(added)].date
    /\ \A r \in daily_tasks :
           r.date = added[Len(added)].date => r.id = added[Len(added)].id

(***************************************************************************)
(* C23.  Whatever the interleaving of the init_database runs of two        *)
(* sessions on an empty store, syllabus_tracker never holds more than the  *)
(* 35 rows of the catalog, and holds exactly these once a run has          *)
(* finished.                                                               *)
(***************************************************************************)
C23_SeedingStaysSingle ==
    /\ Cardinality(syllabus_tracker) <= Len(syllabus_data)
    /\ (last.op = "init_database" /\ last.ok) => OneCatalog(syllabus_tracker)

(***************************************************************************)
(* C24.  The efficiency report reads the store the task operations write:  *)
(* once the tables exist, a call of get_efficiency_history returns, in     *)
(* every working directory, and its rows are those of the tasks written    *)
(* through DB_PATH: one row per date present, with that date's number of   *)
(* tasks and of completed tasks.                                           *)
(***************************************************************************)
C24_ReportReadsTaskStore ==
    (last.op = "get_efficiency_history" /\ tracker_tables)
        => /\ last.ok
           /\ { last.rows[i].date : i \in 1..Len(last.rows) }
                  = { r.date : r \in daily_tasks }
           /\ \A i \in 1..Len(last.rows) :
                  /\ last.rows[i].total_tasks
                         = Cardinality({ r \in daily_tasks : r.date = last.rows[i].date })
                  /\ last.rows[i].completed_tasks
                         = Cardinality({ r \in daily_tasks :
                                             /\ r.date = last.rows[i].date
                                             /\ r.is_completed = 1 })

(***************************************************************************)
(* C25.  Revocation lasts until explicit re-approval.  revoke_device(d)    *)
(* sets is_approved of d's record to 0 and approve_device(d) sets it to 1, *)
(* and neither changes anything else of that record or any other record;   *)
(* a record that is not approved stays so through every step that is not   *)
(* approve_device(d) or delete_device(d), a later save_device_session with *)
(* approved = True included; and while d's record is not approved, or is   *)
(* gone, check_device_approval(d) returns approved = False.                *)
(***************************************************************************)
C25_RevocationHolds ==
    /\ [][\A d \in DeviceIds :
            LET old == RowsOf(authorized_devices, d)
                new == RowsOf(authorized_devices', d)
            IN /\ (last'.op = "revoke_device" /\ last'.ok /\ last'.dev = d)
                    => /\ new = { [r EXCEPT !.is_approved = 0] : r \in old }
                       /\ authorized_devices' \ new = authorized_devices \ old
               /\ (last'.op = "approve_device" /\ last'.ok /\ last'.dev = d)
                    => /\ new = { [r EXCEPT !.is_approved = 1] : r \in old }
                       /\ authorized_devices' \ new = authorized_devices \ old
               /\ (/\ old # {}
                   /\ \A r \in old : r.is_approved = 0
                   /\ ~(last'.op \in {"approve_device", "delete_device"}
                          /\ last'.dev = d))
                    => /\ new # {}
                       /\ \A r \in new : r.is_approved = 0]_vars
    /\ []((/\ last.op = "check_device_approval" /\ last.ok
           /\ \A r \in RowsOf(authorized_devices, last.dev) : r.is_approved = 0)
           => last.ret = FALSE)

\* check_device_approval has returned False for a device whose record is not
\* approved although it holds an unexpired token from a login after its first.
C25_Witness ==
    /\ last.op = "check_device_approval" /\ last.ok /\ last.ret = FALSE
    /\ \E r \in RowsOf(authorized_devices, last.dev) :
           /\ r.is_approved = 0
           /\ r.session_token # None
           /\ ExpiryTime(r) > now
           /\ r.first_login < r.last_login

====
